---- MODULE Spec2Model ----
(***************************************************************************)
(* A model of the ecosim World (src/src/wasm/ecosim/src/lib.rs): the        *)
(* deterministic RNG, brain initialisation with bad-hash avoidance, the     *)
(* per-tick creature update, reproduction, death and corpse decay.          *)
(*                                                                         *)
(* f32 values are fixed-point integers with S units per 1.0, truncated      *)
(* toward zero after every multiplication and division.  NaN and the        *)
(* infinities are not represented: every input is a finite number.  u32     *)
(* values that need all 32 bits (the RNG state, the rolling hash) are       *)
(* pairs <<hi, lo>> of 16-bit halves.                                       *)
(***************************************************************************)
EXTENDS Integers, Sequences, FiniteSets, TLC

VARIABLES width, height, tick, creatures, plants, corpses, brain_mode, rng,
          bad_brain_hashes, config, hist, ops

vars == <<width, height, tick, creatures, plants, corpses, brain_mode, rng,
          bad_brain_hashes, config, hist, ops>>

(***************************************************************************)
(* Bounds of the model.  The code builds 50 creatures and 150 plants        *)
(* (lib.rs:214, 249, 662, 703); the model builds NumCreatures and NumPlants.*)
(***************************************************************************)
NumCreatures == 2
NumPlants == 1
MaxOps == 2

(***************************************************************************)
(* Fixed-point arithmetic standing for f32.                                 *)
(***************************************************************************)
S == 100 * 100
F(n) == n * S
Abs(a) == IF a < 0 THEN -a ELSE a
Sgn(a, b) == IF (a < 0) = (b < 0) THEN 1 ELSE -1
FMax(a, b) == IF a >= b THEN a ELSE b
FMin(a, b) == IF a <= b THEN a ELSE b
Clamp(a, lo, hi) == IF a < lo THEN lo ELSE IF a > hi THEN hi ELSE a

\* a * b
Mul(a, b) ==
  LET x == Abs(a)
      y == Abs(b)
      x1 == x \div S
      x0 == x % S
      y1 == y \div S
      y0 == y % S
  IN Sgn(a, b) * (x1 * y1 * S + x1 * y0 + x0 * y1 + (x0 * y0) \div S)

\* a / b, b # 0
Div(a, b) ==
  LET x == Abs(a)
      y == Abs(b)
      q == x \div y
      r == x % y
      fr == IF y <= 200000 THEN (r * S) \div y
            ELSE IF y <= 20000000 THEN ((r \div 100) * S) \div (y \div 100)
            ELSE ((r \div S) * S) \div (y \div S)
  IN Sgn(a, b) * (q * S + fr)

RECURSIVE IsqrtIn(_, _, _)
IsqrtIn(n, lo, hi) ==
  IF lo >= hi THEN lo
  ELSE LET m == (lo + hi + 1) \div 2
       IN IF m * m <= n THEN IsqrtIn(n, m, hi) ELSE IsqrtIn(n, lo, m - 1)

Isqrt(n) == IsqrtIn(n, 0, 46340)

\* f32::sqrt, a >= 0
Sqrt(a) == IF a <= 200000 THEN Isqrt(a * S) ELSE Isqrt(a) * 100

Pi == 314159 \div 10
TwoPi == 2 * Pi

\* f32::sin and f32::cos: Bhaskara's rational approximation on a half period
SinHalf(x) ==
  LET p == Mul(x, Pi - x)
  IN Div(16 * p, 5 * Mul(Pi, Pi) - 4 * p)

Sin(x) ==
  LET r == x % TwoPi
  IN IF r <= Pi THEN SinHalf(r) ELSE -SinHalf(r - Pi)

Cos(x) == Sin(x + Pi \div 2)

\* f32::tanh: x(27 + x^2)/(27 + 9x^2) inside (-3, 3), saturated outside
Tanh(x) ==
  IF x >= F(3) THEN S
  ELSE IF x <= -F(3) THEN -S
  ELSE LET x2 == Mul(x, x)
       IN Div(Mul(x, F(27) + x2), F(27) + 9 * x2)

(***************************************************************************)
(* RngLCG: the 32-bit state is <<hi, lo>>.                                  *)
(***************************************************************************)
U16 == 256 * 256

\* RngLCG::new, if it took the seed 0 as it is
RngNewRaw(seed) == seed

\* RngLCG::new: seed 0 becomes 0xDEADBEEF
RngNew(seed) == IF seed = <<0, 0>> THEN <<57005, 48879>> ELSE seed

\* RngLCG::next_u32: state * 1664525 + 1013904223 (mod 2^32); the draw is
\* the new state.  1664525 = 25 * 2^16 + 26125, 1013904223 = 15470 * 2^16 + 62303.
next_u32(s) ==
  LET p0 == s[2] * 26125
      p1 == (s[1] * 26125 + s[2] * 25) % U16
      lo == (p0 % U16) + 62303
      hi == (p0 \div U16) + p1 + 15470 + (lo \div U16)
  IN <<hi % U16, lo % U16>>

\* (u as f32) / 4294967296.0 for the draw u: the conversion to f32 rounds to
\* 24 significant bits, so the 128 largest draws round up to 2^32.
f32_01(u) ==
  IF u[1] = 65535 /\ u[2] >= 65408 THEN S ELSE (u[1] * S) \div U16

\* RngLCG::uniform for the draw u
uniform(min, max, u) == min + Mul(max - min, f32_01(u))

\* The next k draws, in order; the state after them is the last one.
RECURSIVE Draws(_, _)
Draws(s, k) ==
  IF k <= 0 THEN <<>>
  ELSE IF k = 1 THEN <<next_u32(s)>>
  ELSE LET h == k \div 2
           left == Draws(s, h)
       IN left \o Draws(left[h], k - h)

\* a small number as a u32
U32(n) == <<n \div U16, n % U16>>

\* u32::wrapping_add(1)
WrappingInc(n) ==
  IF n = <<U16 - 1, U16 - 1>> THEN <<0, 0>>
  ELSE IF n[2] = U16 - 1 THEN <<n[1] + 1, 0>> ELSE <<n[1], n[2] + 1>>

\* u32::saturating_add(1)
SaturatingInc(n) ==
  IF n = <<U16 - 1, U16 - 1>> THEN n
  ELSE IF n[2] = U16 - 1 THEN <<n[1] + 1, 0>> ELSE <<n[1], n[2] + 1>>

\* a >= b on u32
U32Geq(a, b) == a[1] > b[1] \/ (a[1] = b[1] /\ a[2] >= b[2])

(***************************************************************************)
(* Brain: layer_sizes, weights and biases (one flat vector per layer        *)
(* transition) and the activations of the last forward pass; <<>> stands    *)
(* for activations: None.                                                   *)
(***************************************************************************)
OG == "OG"
Zegion == "Zegion"

\* the layer sizes of a brain mode (lib.rs:421, 608-611, 665-668, 715, 718)
LayerSizes(mode) == IF mode = OG THEN <<14, 8, 8>> ELSE <<24, 16, 6>>

\* the number of weights before layer transition li
RECURSIVE WeightOffset(_, _)
WeightOffset(ls, li) ==
  IF li <= 1 THEN 0 ELSE WeightOffset(ls, li - 1) + ls[li - 1] * ls[li]

\* init_brain: He-like initialisation, drawing n_in * n_out weights per
\* layer transition; returns the brain and the RNG state after the draws.
init_brain(layer_sizes, r) ==
  LET nl == Len(layer_sizes)
      total == WeightOffset(layer_sizes, nl)
      ds == Draws(r, total)
      scale(li) == Sqrt(Div(F(2), FMax(F(layer_sizes[li]), F(1))))
      w(li) == [j \in 1..(layer_sizes[li] * layer_sizes[li + 1]) |->
                  Mul(uniform(-S, S, ds[WeightOffset(layer_sizes, li) + j]), scale(li))]
  IN [brain |-> [layer_sizes |-> layer_sizes,
                 weights |-> [li \in 1..(nl - 1) |-> w(li)],
                 biases |-> [li \in 1..(nl - 1) |-> [o \in 1..layer_sizes[li + 1] |-> 0]],
                 activations |-> <<>>],
      rng |-> IF total = 0 THEN r ELSE ds[total]]

(***************************************************************************)
(* brain_hash: the canonical JSON text of the brain, as bytes, and the      *)
(* rolling hash of it rendered in base 36.                                  *)
(***************************************************************************)
RECURSIVE DecDigits(_)
DecDigits(n) == IF n < 10 THEN <<48 + n>> ELSE Append(DecDigits(n \div 10), 48 + (n % 10))

\* the text serde_json writes for an f32: sign, integer part, a point and the
\* fraction without trailing zeros (at least one digit)
f32_json(v) ==
  LET a == Abs(v)
      fp == a % S
      d == <<fp \div 1000, (fp \div 100) % 10, (fp \div 10) % 10, fp % 10>>
      k == IF d[4] # 0 THEN 4 ELSE IF d[3] # 0 THEN 3 ELSE IF d[2] # 0 THEN 2 ELSE 1
  IN (IF v < 0 THEN <<45>> ELSE <<>>) \o DecDigits(a \div S) \o <<46>>
       \o [i \in 1..k |-> 48 + d[i]]

\* the texts ts[lo..hi] joined by commas
RECURSIVE JoinComma(_, _, _)
JoinComma(ts, lo, hi) ==
  IF lo > hi THEN <<>>
  ELSE IF lo = hi THEN ts[lo]
  ELSE LET m == (lo + hi) \div 2
       IN JoinComma(ts, lo, m) \o <<44>> \o JoinComma(ts, m + 1, hi)

JsonArray(ts) == <<91>> \o JoinComma(ts, 1, Len(ts)) \o <<93>>
JsonF32Vec(v) == JsonArray([i \in 1..Len(v) |-> f32_json(v[i])])
JsonF32Mat(m) == JsonArray([i \in 1..Len(m) |-> JsonF32Vec(m[i])])

\* serde_json::to_string(&Canon { layer_sizes, weights, biases })
CanonJson(brain) ==
  <<123, 34, 108, 97, 121, 101, 114, 95, 115, 105, 122, 101, 115, 34, 58>> \o JsonArray([i \in 1..Len(brain.layer_sizes) |-> DecDigits(brain.layer_sizes[i])])
  \o <<44, 34, 119, 101, 105, 103, 104, 116, 115, 34, 58>> \o JsonF32Mat(brain.weights)
  \o <<44, 34, 98, 105, 97, 115, 101, 115, 34, 58>> \o JsonF32Mat(brain.biases) \o <<125>>

\* one round of the hash loop, if it were hash = (hash << 5) + hash + b
HashRoundPlus(h, b) ==
  LET l5 == h[2] * 32
      sh == <<(h[1] * 32 + (l5 \div U16)) % U16, l5 % U16>>
      al == sh[2] + h[2] + b
  IN <<(sh[1] + h[1] + (al \div U16)) % U16, al % U16>>

\* one round of the hash loop: hash = (hash << 5) - hash + b, wrapping
HashRound(h, b) ==
  LET l5 == h[2] * 32
      sh == <<(h[1] * 32 + (l5 \div U16)) % U16, l5 % U16>>
      dl == sh[2] - h[2]
      su == <<(sh[1] - h[1] - (IF dl < 0 THEN 1 ELSE 0)) % U16, dl % U16>>
      al == su[2] + b
  IN <<(su[1] + (al \div U16)) % U16, al % U16>>

\* the hash loop over the bytes s[lo..hi], from the hash h (the test of hm
\* makes the first half be evaluated before the second)
RECURSIVE HashBytes(_, _, _, _)
HashBytes(h, s, lo, hi) ==
  IF lo > hi THEN h
  ELSE IF lo = hi THEN HashRound(h, s[lo])
  ELSE LET m == (lo + hi) \div 2
           hm == HashBytes(h, s, lo, m)
       IN IF hm[1] >= 0 THEN HashBytes(hm, s, m + 1, hi) ELSE hm

\* the digits of n in base 36, least significant first
RECURSIVE Radix36(_)
Radix36(n) ==
  IF n = <<0, 0>> THEN <<>>
  ELSE LET t == (n[1] % 36) * U16 + n[2]
           rem == t % 36
           ch == IF rem < 10 THEN 48 + rem ELSE 97 + (rem - 10)
       IN <<ch>> \o Radix36(<<n[1] \div 36, t \div 36>>)

Reverse(s) == [i \in 1..Len(s) |-> s[Len(s) + 1 - i]]

\* simple_hash_str over the bytes of a string
simple_hash_str(s) ==
  LET n == HashBytes(<<0, 0>>, s, 1, Len(s))
  IN IF n = <<0, 0>> THEN <<48>> ELSE Reverse(Radix36(n))

brain_hash(brain) == simple_hash_str(CanonJson(brain))

MAX_TRIES == 16

\* the retry loop, if it never looked at the hash
RECURSIVE AvoidLoopBlind(_, _, _, _)
AvoidLoopBlind(last, layer_sizes, bad, n) ==
  IF n = 0 THEN last
  ELSE AvoidLoopBlind(init_brain(layer_sizes, last.rng), layer_sizes, bad, n - 1)

\* the retry loop of init_brain_avoiding_bad with n rounds left; last is the
\* current candidate with the RNG state after it
RECURSIVE AvoidLoop(_, _, _, _)
AvoidLoop(last, layer_sizes, bad, n) ==
  IF n = 0 THEN last
  ELSE IF brain_hash(last.brain) \notin bad THEN last
  ELSE AvoidLoop(init_brain(layer_sizes, last.rng), layer_sizes, bad, n - 1)

\* init_brain_avoiding_bad, if the first initialization counted as a try
InitBrainSixteen(layer_sizes, r, bad) ==
  AvoidLoop(init_brain(layer_sizes, r), layer_sizes, bad, MAX_TRIES - 1)

init_brain_avoiding_bad(layer_sizes, r, bad) ==
  LET last == init_brain(layer_sizes, r)
  IN IF bad = {} THEN last ELSE AvoidLoop(last, layer_sizes, bad, MAX_TRIES)

(***************************************************************************)
(* Config::default (lib.rs:68-114); rates are per second.                   *)
(***************************************************************************)
DefaultConfig ==
  [rest_stamina_regen_per_sec |-> 20000,
   rest_health_regen_per_sec |-> 2000,
   harvest_plant_action_cost_per_second |-> 200,
   attack_cost_per_hit_stamina |-> 20000,
   sprint_overflow_cost_per_sec |-> 300,
   posture_cost_per_sec |-> 50,
   attack_cost_per_hit_energy |-> 400,
   thirst_threshold |-> F(30),
   thirst_recovery_per_sec |-> F(5),
   drink_cost_per_second |-> 100,
   move_cost_coeff_per_speed_per_sec |-> 200,
   ambient_health_decay_per_sec |-> 200,
   aging_health_decay_coeff |-> 5000,
   gestation_base_cost_per_sec |-> 200,
   gestation_cost_per_offspring_per_sec |-> 150,
   gestation_period |-> F(60 * 20),
   birth_event_cost_energy |-> F(4),
   mutation_cost_energy_base |-> 5000,
   mutation_cost_per_std_change |-> 8000,
   hunger_energy_threshold |-> F(30),
   fatigue_stamina_threshold |-> F(30),
   movement_threshold |-> 200,
   stagnant_ticks_limit |-> U32(600),
   swim_energy_cost_per_sec |-> 0,
   wind_drag_coeff |-> 0,
   temp_cold_penalty_per_sec |-> 0,
   temp_heat_penalty_per_sec |-> 0,
   comfort_low_c |-> F(10),
   comfort_high_c |-> F(28),
   humidity_dehydration_coeff_per_sec |-> 0,
   humidity_threshold |-> 7000,
   oxygen_thin_air_penalty_per_sec |-> 0,
   thin_air_elevation_cutoff01 |-> 8000,
   noise_stress_penalty_per_sec |-> 0,
   disease_energy_drain_per_sec |-> 0,
   corpse_base_decay_per_sec |-> 5000,
   corpse_temp_decay_coeff |-> 0,
   corpse_humidity_decay_coeff |-> 0,
   corpse_rain_decay_coeff |-> 0,
   corpse_wetness_decay_coeff |-> 0]

Herbivore == "Herbivore"
Carnivore == "Carnivore"

\* format!("c{}", n)
CreatureId(n) == <<"c", n>>

\* the fields of a freshly made creature, if it began pregnant
FreshCreatureExpecting(id, x, y, vx, vy, radius, energy, diet, brain) ==
  [id |-> id, x |-> x, y |-> y, vx |-> vx, vy |-> vy, radius |-> radius,
   health |-> F(100), energy |-> energy, stamina |-> F(100), max_stamina |-> F(100),
   thirst |-> F(100), lifespan |-> U32(0), diet |-> diet, brain |-> brain,
   is_pregnant |-> TRUE, gestation_timer |-> 0, offspring_count |-> 1,
   actions_mask |-> 0, feelings_mask |-> 0, stagnant_ticks |-> U32(0),
   last_env_total |-> 0, last_env_swim |-> 0, last_env_wind |-> 0,
   last_env_cold |-> 0, last_env_heat |-> 0, last_env_humid |-> 0,
   last_env_oxy |-> 0, last_env_noise |-> 0, last_env_disease |-> 0,
   last_locomotion |-> 0]

\* the fields every freshly made creature shares (lib.rs:221-245, 427-451, 619-643)
FreshCreature(id, x, y, vx, vy, radius, energy, diet, brain) ==
  [id |-> id, x |-> x, y |-> y, vx |-> vx, vy |-> vy, radius |-> radius,
   health |-> F(100), energy |-> energy, stamina |-> F(100), max_stamina |-> F(100),
   thirst |-> F(100), lifespan |-> U32(0), diet |-> diet, brain |-> brain,
   is_pregnant |-> FALSE, gestation_timer |-> 0, offspring_count |-> 1,
   actions_mask |-> 0, feelings_mask |-> 0, stagnant_ticks |-> U32(0),
   last_env_total |-> 0, last_env_swim |-> 0, last_env_wind |-> 0,
   last_env_cold |-> 0, last_env_heat |-> 0, last_env_humid |-> 0,
   last_env_oxy |-> 0, last_env_noise |-> 0, last_env_disease |-> 0,
   last_locomotion |-> 0]

\* the diet of a creature, if no draw made a carnivore
DietOfNever(u) == Herbivore

\* the diet of a creature from its draw: > 0.8 is a carnivore
DietOf(u) == IF f32_01(u) > 8000 THEN Carnivore ELSE Herbivore

\* World::new, the creature pushed for index i from its five draws d and its
\* brain b
NewCreatureOf(i, w, h, d, b) ==
  [c |-> FreshCreature(CreatureId(i), uniform(0, w, d[1]), uniform(0, h, d[2]),
                       Mul(uniform(-S, S, d[3]), F(2)), Mul(uniform(-S, S, d[4]), F(2)),
                       F(5), F(100), DietOf(d[5]), b.brain),
   rng |-> b.rng]

\* World::new, the body of the creature loop for index i: x, y, vx, vy and
\* the diet are drawn before the brain
NewCreature(i, w, h, r) ==
  NewCreatureOf(i, w, h, Draws(r, 5),
                init_brain_avoiding_bad(LayerSizes(OG), Draws(r, 5)[5], {}))

\* World::new, the creature loop from index i: the creatures and the RNG after
RECURSIVE NewCreatures(_, _, _, _, _, _)
NewCreatures(i, n, w, h, cs, one) ==
  IF i + 1 >= n THEN [cs |-> Append(cs, one.c), rng |-> one.rng]
  ELSE NewCreatures(i + 1, n, w, h, Append(cs, one.c), NewCreature(i + 1, w, h, one.rng))

\* n plants of radius 3 at drawn positions (lib.rs:249-251, 703-705)
NewPlants(n, w, h, r) ==
  LET d == Draws(r, 2 * n)
  IN [ps |-> [k \in 1..n |-> [x |-> uniform(0, w, d[2 * k - 1]),
                              y |-> uniform(0, h, d[2 * k]), radius |-> F(3)]],
      rng |-> IF n = 0 THEN r ELSE d[2 * n]]

\* the world of the creatures cr and the plants pl, both with the RNG after
WorldOf(w, h, cr, pl) ==
  [width |-> w, height |-> h, tick |-> 0, creatures |-> cr.cs, plants |-> pl.ps,
   corpses |-> <<>>, brain_mode |-> OG, rng |-> pl.rng, bad_brain_hashes |-> {},
   config |-> DefaultConfig]

\* the world of the creatures cr, with its plants still to draw
WorldWith(w, h, cr) == WorldOf(w, h, cr, NewPlants(NumPlants, w, h, cr.rng))

\* World::new
WorldNew(w, h, seed) ==
  WorldWith(w, h, NewCreatures(0, NumCreatures, w, h, <<>>, NewCreature(0, w, h, RngNew(seed))))

(***************************************************************************)
(* Environment samplers: pure functions of position and tick.               *)
(***************************************************************************)
terrain_speed_at(x, y, t) ==
  LET tt == (t % 10000) * 10
      v == Mul(Mul(Sin(Mul(x, 30) + tt), Cos(Mul(y, 20) - tt)), 5000) + 5000
  IN 6000 + Mul(v, 4000)

sample_temperature_c(x, y, t) ==
  LET tt == t * 100
  IN F(20) + Mul(Sin(Mul(x, 10) + tt) + Cos(Mul(y, 10) - Mul(tt, 7000)), F(5))

sample_humidity01(x, y, t) ==
  LET tt == t * 80
  IN Clamp(Mul(Mul(Sin(Mul(x, 7) + Mul(y, 5) + tt), 5000) + 5000, 9000), 0, S)

sample_rain01(x, y, t) ==
  LET tt == t * 200
      band == Mul(Sin(tt), 5000) + 5000
  IN Clamp(Mul(band, Mul(Sin(Mul(y, 20) + Mul(tt, 3000)), 5000) + 5000), 0, S)

sample_wetness01(x, y, t) ==
  LET r == sample_rain01(x, y, IF t >= 50 THEN t - 50 ELSE 0)
  IN Clamp(Mul(r, 7000) + Mul(sample_humidity01(x, y, t), 3000), 0, S)

sample_wind_speed(x, y, t) ==
  LET tt == t * 150
  IN Clamp(Mul(Mul(Sin(Mul(x, 9) + tt), Cos(Mul(y, 6) - tt)), 5000) + 5000, 0, S)

sample_elevation01(x, y) ==
  LET nx == Mul(Sin(Mul(x, 10)), 5000) + 5000
      ny == Mul(Cos(Mul(y, 10)), 5000) + 5000
  IN Clamp(Mul(Mul(nx, 6000) + Mul(ny, 4000), 9000), 0, S)

sample_noise01(x, y, t) ==
  LET tt == t * 500
  IN Clamp(Mul(Mul(Sin(Mul(x, 40) + tt), Sin(Mul(y, 30) - tt)), 5000) + 5000, 0, S)

(***************************************************************************)
(* Neighbour searches.  An Option<(f32, f32)> is <<>> for None and <<x, y>>  *)
(* for Some((x, y)).                                                        *)
(***************************************************************************)
Dist2(x, y, c) == Mul(c.x - x, c.x - x) + Mul(c.y - y, c.y - y)

\* the loop of nearest_herbivore from index i of cs; best_d2 < 0 stands for
\* f32::INFINITY
RECURSIVE NearestHerbFrom(_, _, _, _, _, _)
NearestHerbFrom(x, y, cs, i, best_d2, best) ==
  IF i > Len(cs) THEN best
  ELSE LET c == cs[i]
           d2 == Dist2(x, y, c)
       IN IF c.diet = Herbivore /\ (best_d2 < 0 \/ d2 < best_d2)
          THEN NearestHerbFrom(x, y, cs, i + 1, d2, <<c.x, c.y>>)
          ELSE NearestHerbFrom(x, y, cs, i + 1, best_d2, best)

nearest_herbivore(x, y, a, b) == NearestHerbFrom(x, y, a \o b, 1, -1, <<>>)

\* the loop of nearest_carnivore from index i of cs; best is <<>> or <<x, y, d>>
RECURSIVE NearestCarnFrom(_, _, _, _, _)
NearestCarnFrom(x, y, cs, i, best) ==
  IF i > Len(cs) THEN best
  ELSE LET c == cs[i]
           d == Sqrt(Dist2(x, y, c))
       IN IF c.diet # Carnivore \/ (best # <<>> /\ d >= best[3])
          THEN NearestCarnFrom(x, y, cs, i + 1, best)
          ELSE NearestCarnFrom(x, y, cs, i + 1, <<c.x, c.y, d>>)

nearest_carnivore(x, y, a, b) ==
  LET best == NearestCarnFrom(x, y, a \o b, 1, <<>>)
  IN IF best = <<>> THEN <<>> ELSE <<best[1], best[2]>>

plants_near(ps, x, y, radius) ==
  \E k \in 1..Len(ps) :
     Mul(ps[k].x - x, ps[k].x - x) + Mul(ps[k].y - y, ps[k].y - y) <= Mul(radius, radius)

\* wrap, if it carried the coordinate around the axis
WrapAround(v, max) == IF v > max THEN v - max ELSE IF v < 0 THEN v + max ELSE v

wrap(v, max) == IF v > max THEN 0 ELSE IF v < 0 THEN max ELSE v

(***************************************************************************)
(* build_inputs and brain_forward.                                          *)
(***************************************************************************)
\* the unit vector and normalised distance to a target, (0, 0, 1) without one
TargetCue(c, target, w, h) ==
  IF target = <<>> THEN <<0, 0, S>>
  ELSE LET dx == target[1] - c.x
           dy == target[2] - c.y
           d == FMax(Sqrt(Mul(dx, dx) + Mul(dy, dy)), 1)
       IN <<Div(dx, d), Div(dy, d), Clamp(Div(d, FMax(w, h)), 0, S)>>

\* v padded with zeros and truncated to need values
PadTo(v, need) == [i \in 1..need |-> IF i <= Len(v) THEN v[i] ELSE 0]

\* the inputs of build_inputs for the cues herb and carn of the nearest
\* herbivore and carnivore
InputsOf(w, h, t, c, herb, carn, mode) ==
  LET e == Clamp(Div(c.energy, F(100)), 0, S)
      tm == t * 100
      v == <<Div(c.x, w), Div(c.y, h), Tanh(c.vx), Tanh(c.vy), e,
             Clamp(Div(c.health, F(100)), 0, S), Sin(tm), Cos(tm), herb[1], herb[2], herb[3]>>
  IN IF mode = OG THEN PadTo(v \o <<S>>, 14)
     ELSE PadTo(v \o <<carn[1], carn[2], carn[3],
                       terrain_speed_at(c.x, c.y, t),
                       Div(terrain_speed_at(c.x, c.y, t) - 6000, 4000),
                       Tanh(Sqrt(Mul(c.vx, c.vx) + Mul(c.vy, c.vy))),
                       Mul(Tanh(c.vx), herb[1]) + Mul(Tanh(c.vy), herb[2]),
                       Mul(Tanh(c.vx), carn[1]) + Mul(Tanh(c.vy), carn[2]),
                       Sin(Mul(tm, 3700) + Mul(c.x, 7) + Mul(c.y, 9)),
                       Cos(Mul(tm, 4100) - Mul(c.x, 6) + Mul(c.y, 11)),
                       IF c.diet = Carnivore THEN S ELSE 0,
                       Clamp(S - e, 0, S), S>>, 24)

build_inputs(w, h, t, c, a, b, mode) ==
  InputsOf(w, h, t, c, TargetCue(c, nearest_herbivore(c.x, c.y, a, b), w, h),
           TargetCue(c, nearest_carnivore(c.x, c.y, a, b), w, h), mode)

\* the sum of w[base + ii] * cur[ii] for ii in lo..hi
RECURSIVE Dot(_, _, _, _, _)
Dot(w, base, cur, lo, hi) ==
  IF lo > hi THEN 0
  ELSE IF lo = hi THEN Mul(w[base + lo], cur[lo])
  ELSE LET m == (lo + hi) \div 2
       IN Dot(w, base, cur, lo, m) + Dot(w, base, cur, m + 1, hi)

\* one layer of brain_forward: ReLU on hidden layers, tanh on the last one
\* (the concatenation makes the layer a sequence computed once)
ForwardLayer(brain, cur, li) ==
  LET n_in == brain.layer_sizes[li]
      n_out == brain.layer_sizes[li + 1]
      last == li + 1 = Len(brain.layer_sizes)
  IN [o \in 1..n_out |->
        LET sum == brain.biases[li][o] + Dot(brain.weights[li], (o - 1) * n_in, cur, 1, n_in)
        IN IF last THEN Tanh(sum) ELSE IF sum > 0 THEN sum ELSE 0] \o <<>>

\* the activations of the layers li + 1 .. from the activation cur of layer li
RECURSIVE ForwardFrom(_, _, _)
ForwardFrom(brain, cur, li) ==
  IF li >= Len(brain.layer_sizes) THEN <<>>
  ELSE LET next == ForwardLayer(brain, cur, li)
       IN <<next>> \o ForwardFrom(brain, next, li + 1)

\* brain_forward: the output and every layer's activation, the inputs first
brain_forward(brain, inputs) ==
  LET acts == <<inputs>> \o ForwardFrom(brain, inputs, 1)
  IN [out |-> acts[Len(acts)], acts |-> acts]

(***************************************************************************)
(* World::step: the update of one creature (lib.rs:261-476).                *)
(***************************************************************************)
\* mask |= bit
BitOr(mask, bit) == IF (mask \div bit) % 2 = 1 THEN mask ELSE mask + bit

\* lifespan as f32 / max_life, clamped to [0, 1]; max_life = 60 * 60 * 60
AgeNorm(l) ==
  IF l[1] >= 4 \/ l[1] * U16 + l[2] >= 216000 THEN S
  ELSE ((l[1] * U16 + l[2]) * 1000) \div 21600

\* the newborn k (lib.rs:415-452) from its two draws d, its brain b and the
\* two draws v of its velocity; px, py is the parent's position
Newborn(k, px, py, diet, d, b, v, W) ==
  FreshCreature(CreatureId(W.tick + k),
                Clamp(px + Mul(Cos(Mul(F(k), 7000) + Mul(f32_01(d[1]), 62831)),
                               F(4) + Mul(f32_01(d[2]), F(6))), 0, W.width),
                Clamp(py + Mul(Sin(Mul(F(k), 7000) + Mul(f32_01(d[1]), 62831)),
                               F(4) + Mul(f32_01(d[2]), F(6))), 0, W.height),
                uniform(-5000, 5000, v[1]), uniform(-5000, 5000, v[2]),
                F(4), F(80), diet, b.brain)

\* the newborn k once its brain b is drawn
NewbornWith(k, px, py, diet, d, b, W) ==
  [c |-> Newborn(k, px, py, diet, d, b, Draws(b.rng, 2), W), rng |-> Draws(b.rng, 2)[2]]

\* the newborn k, if it were a herbivore whatever its parent is
NewbornHerbivore(k, px, py, diet, d, W) ==
  NewbornWith(k, px, py, Herbivore, d,
              init_brain_avoiding_bad(LayerSizes(W.brain_mode), d[2], W.bad_brain_hashes), W)

\* the newborn k from the RNG r, and the RNG after
NewbornFrom(k, px, py, diet, d, W) ==
  NewbornWith(k, px, py, diet, d,
              init_brain_avoiding_bad(LayerSizes(W.brain_mode), d[2], W.bad_brain_hashes), W)

\* the offspring loop (lib.rs:414-453) from index k, with the newborns cs so
\* far: the newborns and the RNG after
RECURSIVE Offspring(_, _, _, _, _, _, _, _)
Offspring(k, n, px, py, diet, W, cs, one) ==
  IF k + 1 >= n THEN [cs |-> Append(cs, one.c), rng |-> one.rng]
  ELSE Offspring(k + 1, n, px, py, diet, W, Append(cs, one.c),
                 NewbornFrom(k + 1, px, py, diet, Draws(one.rng, 2), W))

\* v * dt * 60.0
PerTick(v, dt) == Mul(Mul(v, dt), F(60))

\* the creature pays the energy cost and keeps at least the floor lo
Pay(c, cost, lo) == [c EXCEPT !.energy = FMax(c.energy - cost, lo)]

\* the brain's outputs as the loop reads them (lib.rs:271-278, 290, 300)
Steer(fw) ==
  LET Out(k) == IF Len(fw.out) > k THEN fw.out[k + 1] ELSE 0
  IN [acts |-> fw.acts, ax |-> Tanh(Out(0)), ay |-> Tanh(Out(1)),
      a_scale |-> Abs(Tanh(Out(2))), wants_eat |-> Tanh(Out(3)) > 5000,
      wants_rest |-> Tanh(Out(4)) > 5000, wants_boost |-> Tanh(Out(5)) > 5000]

\* acceleration, movement, damping and the reset of the masks (lib.rs:277-288)
Move(c, it, speed_mult, dt) ==
  LET accel0 == Mul(Mul(3500, speed_mult), 5000 + it.a_scale)
      accel == IF it.wants_boost THEN Mul(accel0, 15000) ELSE accel0
      vx1 == c.vx + Mul(it.ax, accel)
      vy1 == c.vy + Mul(it.ay, accel)
  IN [c EXCEPT !.x = c.x + Mul(PerTick(vx1, dt), speed_mult),
               !.y = c.y + Mul(PerTick(vy1, dt), speed_mult),
               !.vx = Mul(vx1, 9900), !.vy = Mul(vy1, 9900),
               !.actions_mask = 0, !.feelings_mask = 0]

\* resting (lib.rs:290-298)
Rest(c, it, dt, cfg) ==
  IF ~it.wants_rest THEN c
  ELSE [c EXCEPT !.vx = Mul(c.vx, 9000), !.vy = Mul(c.vy, 9000),
                 !.stamina = FMin(c.stamina + PerTick(cfg.rest_stamina_regen_per_sec, dt),
                                  c.max_stamina),
                 !.health = IF c.health < F(100)
                            THEN FMin(c.health + PerTick(cfg.rest_health_regen_per_sec, dt), F(100))
                            ELSE c.health,
                 !.actions_mask = BitOr(c.actions_mask, 1)]

\* eating near a plant (lib.rs:300-308)
Eat(c, it, ps, dt, cfg) ==
  IF it.wants_eat /\ plants_near(ps, c.x, c.y, c.radius + F(5))
  THEN [c EXCEPT !.energy = FMax(FMin(c.energy + 1500, F(100))
                                 - PerTick(cfg.harvest_plant_action_cost_per_second, dt), 0),
                 !.actions_mask = BitOr(c.actions_mask, 2)]
  ELSE c

\* sqrt(vx * vx + vy * vy) (lib.rs:316, 474)
SpeedMag(c) == Sqrt(Mul(c.vx, c.vx) + Mul(c.vy, c.vy))

\* the sprint drain (lib.rs:310-314)
Sprint(c, it, cfg) ==
  IF it.wants_boost
  THEN [c EXCEPT !.energy = FMax(c.energy - 1000, 0),
                 !.stamina = FMax(c.stamina - Mul(cfg.attack_cost_per_hit_stamina, 0), 0),
                 !.actions_mask = BitOr(c.actions_mask, 4)]
  ELSE c

\* the sprint overflow (lib.rs:317)
SprintOverflow(c, it, dt, cfg) ==
  IF it.wants_boost /\ SpeedMag(c) > 25000
  THEN Pay(c, PerTick(cfg.sprint_overflow_cost_per_sec, dt), 0) ELSE c

\* posture maintenance (lib.rs:319)
Posture(c, it, dt, cfg) ==
  IF ~it.wants_rest /\ SpeedMag(c) < 500
  THEN Pay(c, PerTick(cfg.posture_cost_per_sec, dt), 0) ELSE c

\* the attack attempt of a boosting carnivore (lib.rs:322-327)
Attack(c, it, left, rest, dt, cfg) ==
  IF c.diet = Carnivore /\ it.wants_boost /\ nearest_herbivore(c.x, c.y, left, rest) # <<>>
  THEN [c EXCEPT !.energy = FMax(c.energy - PerTick(cfg.attack_cost_per_hit_energy, dt), 0),
                 !.actions_mask = BitOr(c.actions_mask, 8)]
  ELSE c

\* drinking near a plant (lib.rs:329-336)
Drink(c, ps, dt, cfg) ==
  IF plants_near(ps, c.x, c.y, c.radius + F(5)) /\ c.thirst < cfg.thirst_threshold
  THEN [c EXCEPT !.thirst = FMin(c.thirst + PerTick(cfg.thirst_recovery_per_sec, dt), F(100)),
                 !.energy = FMax(c.energy - PerTick(cfg.drink_cost_per_second, dt), 0),
                 !.actions_mask = BitOr(c.actions_mask, 16)]
  ELSE c

\* the locomotion cost, if the cost recorded in the last tick were charged
\* again
LocomotionCarried(c, dt, cfg) ==
  [c EXCEPT !.energy = FMax(c.energy - PerTick(Mul(cfg.move_cost_coeff_per_speed_per_sec,
                                                   SpeedMag(c)) + c.last_locomotion, dt), 0),
            !.last_locomotion = Mul(cfg.move_cost_coeff_per_speed_per_sec, SpeedMag(c))]

\* the locomotion cost (lib.rs:338-339, 383)
Locomotion(c, dt, cfg) ==
  [c EXCEPT !.energy = FMax(c.energy - PerTick(Mul(cfg.move_cost_coeff_per_speed_per_sec,
                                                   SpeedMag(c)), dt), 0),
            !.last_locomotion = Mul(cfg.move_cost_coeff_per_speed_per_sec, SpeedMag(c))]

\* the environmental rates at the creature (lib.rs:352-380)
EnvRates(c, t, h, cfg) ==
  LET temp_c == sample_temperature_c(c.x, c.y, t)
      humid01 == sample_humidity01(c.x, c.y, t)
      elev01 == sample_elevation01(c.x, c.y)
  IN [swim |-> IF c.y < Mul(h, 1200) \/ c.y > Mul(h, 8800)
               THEN cfg.swim_energy_cost_per_sec ELSE 0,
      wind |-> Mul(Mul(cfg.wind_drag_coeff, sample_wind_speed(c.x, c.y, t)), SpeedMag(c)),
      cold |-> IF temp_c < cfg.comfort_low_c
               THEN Div(Mul(cfg.temp_cold_penalty_per_sec, FMax(cfg.comfort_low_c - temp_c, 0)), F(10))
               ELSE 0,
      heat |-> IF temp_c > cfg.comfort_high_c
               THEN Div(Mul(cfg.temp_heat_penalty_per_sec, FMax(temp_c - cfg.comfort_high_c, 0)), F(10))
               ELSE 0,
      humid |-> IF humid01 > cfg.humidity_threshold
                THEN Mul(cfg.humidity_dehydration_coeff_per_sec,
                         FMax(humid01 - cfg.humidity_threshold, 0))
                ELSE 0,
      oxy |-> IF elev01 > cfg.thin_air_elevation_cutoff01
              THEN Mul(cfg.oxygen_thin_air_penalty_per_sec,
                       FMax(elev01 - cfg.thin_air_elevation_cutoff01, 0))
              ELSE 0,
      noise |-> Mul(cfg.noise_stress_penalty_per_sec, sample_noise01(c.x, c.y, t)),
      disease |-> cfg.disease_energy_drain_per_sec]

\* the environmental telemetry and cost, from the rates env (lib.rs:381-393)
EnvCosts(c, env, dt) ==
  LET env_total == env.swim + env.wind + env.cold + env.heat + env.humid + env.oxy
                   + env.noise + env.disease
  IN [c EXCEPT !.last_env_total = env_total, !.last_env_swim = env.swim,
               !.last_env_wind = env.wind, !.last_env_cold = env.cold,
               !.last_env_heat = env.heat, !.last_env_humid = env.humid,
               !.last_env_oxy = env.oxy, !.last_env_noise = env.noise,
               !.last_env_disease = env.disease,
               !.energy = IF env_total # 0
                          THEN FMax(c.energy - Mul(env_total, Mul(dt, F(60))), 0)
                          ELSE c.energy]

\* the iteration without the ambient health decay
AmbientDecayNever(c, it, dt, cfg) == c

\* the ambient health decay with aging (lib.rs:395-398)
AmbientDecay(c, it, dt, cfg) ==
  LET ambient == Mul(cfg.ambient_health_decay_per_sec,
                     S + Mul(cfg.aging_health_decay_coeff, AgeNorm(c.lifespan)))
  IN IF ~it.wants_rest THEN [c EXCEPT !.health = FMax(c.health - PerTick(ambient, dt), 0)]
     ELSE c

\* offspring_count.max(1)
Litter(c) == IF c.offspring_count > 1 THEN c.offspring_count ELSE 1

\* the gestation cost and timer of a pregnant creature (lib.rs:401-404)
Carry(c, dt, cfg) ==
  [c EXCEPT !.energy = FMax(c.energy - PerTick(cfg.gestation_base_cost_per_sec
                              + Mul(cfg.gestation_cost_per_offspring_per_sec, F(Litter(c))), dt),
                            -F(50)),
            !.gestation_timer = c.gestation_timer + Mul(dt, F(60))]

\* the birth, if the parent stayed pregnant with its timer running
BirthStillPregnant(c, u0, kids, cfg) ==
  LET mut_cost == cfg.mutation_cost_energy_base
                  + Mul(Mul(cfg.mutation_cost_per_std_change, F(Litter(c))), 5000 + f32_01(u0))
  IN [c |-> Pay(Pay(c, cfg.birth_event_cost_energy, -F(50)), mut_cost, -F(50)),
      rng |-> kids.rng, newborns |-> kids.cs]

\* the birth (lib.rs:405-458): u0 is the draw of the mutation cost, kids the
\* offspring and the RNG after them
Birth(c, u0, kids, cfg) ==
  LET mut_cost == cfg.mutation_cost_energy_base
                  + Mul(Mul(cfg.mutation_cost_per_std_change, F(Litter(c))), 5000 + f32_01(u0))
  IN [c |-> [Pay(Pay(c, cfg.birth_event_cost_energy, -F(50)), mut_cost, -F(50))
               EXCEPT !.is_pregnant = FALSE, !.gestation_timer = 0, !.offspring_count = 1],
      rng |-> kids.rng, newborns |-> kids.cs]

\* the birth when the timer of the carried creature c has run out
Deliver(c, r, W) ==
  IF c.gestation_timer >= W.config.gestation_period
  THEN Birth(c, next_u32(r),
             Offspring(0, Litter(c), c.x, c.y, c.diet, W, <<>>,
                       NewbornFrom(0, c.x, c.y, c.diet, Draws(next_u32(r), 2), W)),
             W.config)
  ELSE [c |-> c, rng |-> r, newborns |-> <<>>]

\* gestation and birth (lib.rs:400-459)
Gestate(c, r, dt, W) ==
  IF c.is_pregnant THEN Deliver(Carry(c, dt, W.config), r, W)
  ELSE [c |-> c, rng |-> r, newborns |-> <<>>]

\* the iteration without the clamp of lib.rs:463-464
ClampVitalsNever(c) == c

\* the clamp of the vital ranges (lib.rs:463-464)
ClampVitals(c) ==
  [c EXCEPT !.energy = Clamp(c.energy, -F(50), F(100)), !.health = Clamp(c.health, 0, F(100))]

\* the feelings of the creature c (lib.rs:470-476)
Feel(c, cfg) ==
  LET f1 == IF c.thirst < cfg.thirst_threshold THEN BitOr(0, 1) ELSE 0
      f2 == IF c.energy < cfg.hunger_energy_threshold THEN BitOr(f1, 2) ELSE f1
      f3 == IF c.stamina < cfg.fatigue_stamina_threshold THEN BitOr(f2, 4) ELSE f2
  IN [c EXCEPT !.feelings_mask =
                 IF U32Geq(c.stagnant_ticks, cfg.stagnant_ticks_limit) THEN BitOr(f3, 8) ELSE f3]

\* the stagnation counter (lib.rs:474-475)
Stagnate(c, cfg) ==
  [c EXCEPT !.stagnant_ticks = IF SpeedMag(c) < cfg.movement_threshold
                               THEN SaturatingInc(c.stagnant_ticks) ELSE U32(0)]

\* wrap, age and activations (lib.rs:460-468)
Age(c, acts, W) ==
  [c EXCEPT !.x = wrap(c.x, W.width), !.y = wrap(c.y, W.height),
            !.lifespan = SaturatingInc(c.lifespan),
            !.brain = [c.brain EXCEPT !.activations = acts]]

\* the end of the iteration (lib.rs:460-476) on the result res of Gestate
Settle(res, acts, W) ==
  [res EXCEPT !.c = Feel(Stagnate(Age(ClampVitals(res.c), acts, W), W.config), W.config)]

\* the costs of the iteration (lib.rs:309-398) for the moved creature c
Costs(c, it, left, rest, dt, W) ==
  AmbientDecay(
    EnvCosts(
      Locomotion(
        Drink(
          Attack(
            Posture(
              SprintOverflow(Sprint(c, it, W.config), it, dt, W.config),
              it, dt, W.config),
            it, left, rest, dt, W.config),
          W.plants, dt, W.config),
        dt, W.config),
      EnvRates(c, W.tick, W.height, W.config), dt),
    it, dt, W.config)

\* the iteration once the brain has spoken (lib.rs:277-476)
Act(c, it, speed_mult, left, rest, r, dt, W) ==
  Settle(Gestate(Costs(Eat(Rest(Move(c, it, speed_mult, dt), it, dt, W.config),
                           it, W.plants, dt, W.config),
                       it, left, rest, dt, W),
                 r, dt, W),
         it.acts, W)

\* One iteration of the creature loop for the creature c, with the creatures
\* before it (left) and after it (rest) in the population, the RNG r and the
\* world W (its tick already incremented).  Returns the creature, the RNG and
\* the newborns of this iteration.
UpdateCreature(c, left, rest, r, dt, W) ==
  Act(c,
      Steer(brain_forward(c.brain,
              build_inputs(W.width, W.height, W.tick, c, left, rest, W.brain_mode))),
      terrain_speed_at(c.x, c.y, W.tick), left, rest, r, dt, W)

(***************************************************************************)
(* World::step: the creature loop, the newborns, the dead and the corpses.  *)
(***************************************************************************)
\* the creature loop, if the creatures after the current one came with the
\* offspring born so far
RECURSIVE CreatureLoopSeesNewborns(_, _, _, _, _, _)
CreatureLoopSeesNewborns(i, cs, u, newborns, dt, W) ==
  IF i > Len(cs)
  THEN [cs |-> [cs EXCEPT ![i - 1] = u.c], rng |-> u.rng, newborns |-> newborns \o u.newborns]
  ELSE CreatureLoopSeesNewborns(i + 1, [cs EXCEPT ![i - 1] = u.c],
                    UpdateCreature(cs[i], SubSeq(cs, 1, i - 2) \o <<u.c>>,
                                   SubSeq(cs, i + 1, Len(cs)) \o newborns \o u.newborns,
                                   u.rng, dt, W),
                    newborns \o u.newborns, dt, W)

\* the creature loop, if every creature saw the others as they were before
\* the step (all is the population the step started from)
RECURSIVE CreatureLoopFrozen(_, _, _, _, _, _)
CreatureLoopFrozen(i, cs, u, newborns, dt, W) ==
  IF i > Len(cs)
  THEN [cs |-> [cs EXCEPT ![i - 1] = u.c], rng |-> u.rng, newborns |-> newborns \o u.newborns]
  ELSE CreatureLoopFrozen(i + 1, [cs EXCEPT ![i - 1] = u.c],
                    UpdateCreature(cs[i], SubSeq(W.creatures, 1, i - 1),
                                   SubSeq(cs, i + 1, Len(cs)), u.rng, dt, W),
                    newborns \o u.newborns, dt, W)

\* the creature loop, if an attack took 10 health from every herbivore
RECURSIVE CreatureLoopWounding(_, _, _, _, _, _)
CreatureLoopWounding(i, cs, u, newborns, dt, W) ==
  LET hit(c) == IF c.diet = Herbivore THEN [c EXCEPT !.health = FMax(c.health - F(10), 0)] ELSE c
      now == [cs EXCEPT ![i - 1] = u.c]
      after == IF (u.c.actions_mask \div 8) % 2 = 1 THEN [k \in 1..Len(now) |-> hit(now[k])] ELSE now
  IN IF i > Len(cs)
     THEN [cs |-> after, rng |-> u.rng, newborns |-> newborns \o u.newborns]
     ELSE CreatureLoopWounding(i + 1, after,
                    UpdateCreature(after[i], SubSeq(after, 1, i - 1),
                                   SubSeq(after, i + 1, Len(after)), u.rng, dt, W),
                    newborns \o u.newborns, dt, W)

\* the creature loop (lib.rs:260-477) at index i: cs is the population,
\* updated in place up to i - 1, u the result of the iteration for cs[i - 1],
\* newborns the buffer of offspring
RECURSIVE CreatureLoop(_, _, _, _, _, _)
CreatureLoop(i, cs, u, newborns, dt, W) ==
  IF i > Len(cs)
  THEN [cs |-> [cs EXCEPT ![i - 1] = u.c], rng |-> u.rng, newborns |-> newborns \o u.newborns]
  ELSE CreatureLoop(i + 1, [cs EXCEPT ![i - 1] = u.c],
                    UpdateCreature(cs[i], SubSeq(cs, 1, i - 2) \o <<u.c>>,
                                   SubSeq(cs, i + 1, Len(cs)), u.rng, dt, W),
                    newborns \o u.newborns, dt, W)

\* the whole creature loop over the population of W
LoopCreatures(W, dt) ==
  IF W.creatures = <<>> THEN [cs |-> <<>>, rng |-> W.rng, newborns |-> <<>>]
  ELSE CreatureLoop(2, W.creatures,
                    UpdateCreature(W.creatures[1], <<>>, SubSeq(W.creatures, 2, Len(W.creatures)),
                                   W.rng, dt, W),
                    <<>>, dt, W)

\* the test of the drain loop with strict comparisons
IsDeadStrict(c) == c.health < 0 \/ c.energy < 0

\* the test of the drain loop (lib.rs:485)
IsDead(c) == c.health <= 0 \/ c.energy <= 0

\* the corpse pushed for a dead creature (lib.rs:486-497)
CorpseOf(c) ==
  [x |-> c.x, y |-> c.y, radius |-> c.radius, energy_remaining |-> FMax(c.energy, 0),
   initial_decay_time |-> F(100), decay_timer |-> F(100),
   last_decay_total |-> 0, last_decay_base |-> 0, last_decay_temp |-> 0,
   last_decay_humid |-> 0, last_decay_rain |-> 0, last_decay_wet |-> 0]

\* the drain loop, if it dropped the creatures that ran out of energy without
\* a corpse
RECURSIVE RemoveDeadUnburied(_, _, _, _)
RemoveDeadUnburied(cs, i, alive, cps) ==
  IF i > Len(cs) THEN [alive |-> alive, corpses |-> cps]
  ELSE IF cs[i].health <= 0 THEN RemoveDeadUnburied(cs, i + 1, alive, Append(cps, CorpseOf(cs[i])))
  ELSE IF cs[i].energy <= 0 THEN RemoveDeadUnburied(cs, i + 1, alive, cps)
  ELSE RemoveDeadUnburied(cs, i + 1, Append(alive, cs[i]), cps)

\* the drain loop (lib.rs:483-502) from index i of cs: the creatures kept and
\* the corpse list
RECURSIVE RemoveDead(_, _, _, _)
RemoveDead(cs, i, alive, cps) ==
  IF i > Len(cs) THEN [alive |-> alive, corpses |-> cps]
  ELSE IF IsDead(cs[i]) THEN RemoveDead(cs, i + 1, alive, Append(cps, CorpseOf(cs[i])))
  ELSE RemoveDead(cs, i + 1, Append(alive, cs[i]), cps)

\* the rate contributions of the decay of the corpse co (lib.rs:507-518)
DecayRates(co, W) ==
  LET cfg == W.config
      base == FMax(cfg.corpse_base_decay_per_sec, 0)
  IN [base |-> base,
      temp |-> Mul(Mul(base, cfg.corpse_temp_decay_coeff),
                   Clamp(Div(sample_temperature_c(co.x, co.y, W.tick) - F(20), F(15)), 0, F(2))),
      humid |-> Mul(Mul(base, cfg.corpse_humidity_decay_coeff),
                    FMax(sample_humidity01(co.x, co.y, W.tick), 0)),
      rain |-> Mul(Mul(base, cfg.corpse_rain_decay_coeff),
                   FMax(sample_rain01(co.x, co.y, W.tick), 0)),
      wet |-> Mul(Mul(base, cfg.corpse_wetness_decay_coeff),
                  FMax(sample_wetness01(co.x, co.y, W.tick), 0))]

\* the rate of decay (lib.rs:519)
DecayRate(k) == FMax(k.base + k.temp + k.humid + k.rain + k.wet, 0)

\* the telemetry and the timer of the corpse co under the contributions k
\* (lib.rs:520-528)
DecayBy(co, k, dt) ==
  [co EXCEPT !.last_decay_base = k.base,
             !.last_decay_temp = FMax(k.temp, 0),
             !.last_decay_humid = FMax(k.humid, 0),
             !.last_decay_rain = FMax(k.rain, 0),
             !.last_decay_wet = FMax(k.wet, 0),
             !.last_decay_total = DecayRate(k),
             !.decay_timer = IF co.decay_timer - Mul(Mul(dt, F(60)), DecayRate(k)) < 0 THEN 0
                             ELSE co.decay_timer - Mul(Mul(dt, F(60)), DecayRate(k))]

\* the decay of one corpse in a tick (lib.rs:507-528)
DecayCorpse(co, dt, W) == DecayBy(co, DecayRates(co, W), dt)

\* the test of corpses.retain, if it kept a timer of 0
CorpseKeptAtZero(co) == co.decay_timer >= 0

\* the test of corpses.retain (lib.rs:530)
CorpseKept(co) == co.decay_timer > 0

\* a creature as the history keeps it: its brain cut down to the activations
Snapshot(c) == [c EXCEPT !.brain = c.brain.activations]

\* the end of World::step, if the plants a creature ate at were used up
StepEndGrazed(W, loop, all, part, decayed) ==
  [world |-> [W EXCEPT !.creatures = part.alive,
                       !.plants = IF \E k \in 1..Len(all) : (all[k].actions_mask \div 2) % 2 = 1
                                  THEN <<>> ELSE @,
                       !.corpses = SelectSeq(decayed, CorpseKept),
                       !.rng = loop.rng],
   upd |-> [k \in 1..Len(all) |-> Snapshot(all[k])],
   born |-> Len(loop.newborns),
   pushed |-> SubSeq(part.corpses, Len(W.corpses) + 1, Len(part.corpses)),
   decayed |-> decayed]

\* the end of World::step: all is the population with the newborns, part the
\* result of the drain loop, decayed the corpses after their decay
StepEnd(W, loop, all, part, decayed) ==
  [world |-> [W EXCEPT !.creatures = part.alive,
                       !.corpses = SelectSeq(decayed, CorpseKept),
                       !.rng = loop.rng],
   upd |-> [k \in 1..Len(all) |-> Snapshot(all[k])],
   born |-> Len(loop.newborns),
   pushed |-> SubSeq(part.corpses, Len(W.corpses) + 1, Len(part.corpses)),
   decayed |-> decayed]

\* World::step after the drain loop, if the corpses were decayed before the
\* dead of this tick joined them
StepDecayOld(W, loop, all, part, dt) ==
  StepEnd(W, loop, all, part,
          [k \in 1..Len(part.corpses) |->
             IF k <= Len(W.corpses) THEN DecayCorpse(part.corpses[k], dt, W) ELSE part.corpses[k]])

\* World::step after the drain loop (lib.rs:506-531)
StepDecay(W, loop, all, part, dt) ==
  StepEnd(W, loop, all, part,
          [k \in 1..Len(part.corpses) |-> DecayCorpse(part.corpses[k], dt, W)])

\* World::step after the newborns are appended (lib.rs:483-531)
StepDrain(W, loop, all, dt) ==
  StepDecay(W, loop, all, RemoveDead(all, 1, <<>>, W.corpses), dt)

\* World::step after the creature loop (lib.rs:479-531)
StepAppend(W, loop, dt) == StepDrain(W, loop, loop.cs \o loop.newborns, dt)

\* World::step after the tick is incremented (lib.rs:259-531)
StepTicked(W, dt) == StepAppend(W, LoopCreatures(W, dt), dt)

\* World::step, if it left the tick alone
StepWorldNoTick(W, dt) == StepTicked(W, dt)

\* World::step on the world W: the world after, and what the step went
\* through on the way (for the history variable)
StepWorld(W, dt) == StepTicked([W EXCEPT !.tick = W.tick + 1], dt)

(***************************************************************************)
(* The other operations of World.                                           *)
(***************************************************************************)
\* spawn_creature once the diet draw u, the brain b and the draws v of the
\* velocity are made
SpawnCreatureOf(W, x, y, u, b, v) ==
  [W EXCEPT !.creatures = Append(W.creatures,
                                 FreshCreature(CreatureId(W.tick), x, y,
                                               Mul(uniform(-S, S, v[1]), F(2)),
                                               Mul(uniform(-S, S, v[2]), F(2)),
                                               F(5), F(100), DietOf(u), b.brain)),
            !.rng = v[2]]

SpawnCreatureWith(W, x, y, u, b) == SpawnCreatureOf(W, x, y, u, b, Draws(b.rng, 2))

\* spawn_creature: the diet is drawn first, then the brain, then vx and vy
SpawnCreatureWorld(W, x, y) ==
  SpawnCreatureWith(W, x, y, next_u32(W.rng),
                    init_brain_avoiding_bad(LayerSizes(W.brain_mode), next_u32(W.rng),
                                            W.bad_brain_hashes))

\* spawn_plant; radius is <<>> for None and <<r>> for Some(r)
SpawnPlantWorld(W, x, y, radius) ==
  LET r == FMax(IF radius = <<>> THEN F(3) ELSE radius[1], 5000)
  IN [W EXCEPT !.plants = Append(W.plants, [x |-> x, y |-> y, radius |-> r])]

\* reset_world, the creature pushed for index i from the diet draw u, its
\* brain b and the four draws d after it
ResetCreatureOf(i, W, u, b, d) ==
  [c |-> FreshCreature(CreatureId(i), uniform(0, W.width, d[1]), uniform(0, W.height, d[2]),
                       Mul(uniform(-S, S, d[3]), F(2)), Mul(uniform(-S, S, d[4]), F(2)),
                       F(5), F(100), DietOf(u), b.brain),
   rng |-> d[4]]

ResetCreatureWith(i, W, u, b) == ResetCreatureOf(i, W, u, b, Draws(b.rng, 4))

\* reset_world, the body of the creature loop for index i: the diet and the
\* brain are drawn before x, y, vx and vy
ResetCreature(i, W, r) ==
  ResetCreatureWith(i, W, next_u32(r),
                    init_brain_avoiding_bad(LayerSizes(W.brain_mode), next_u32(r),
                                            W.bad_brain_hashes))

\* reset_world, the creature loop from index i: the creatures and the RNG after
RECURSIVE ResetCreatures(_, _, _, _, _)
ResetCreatures(i, n, W, cs, one) ==
  IF i + 1 >= n THEN [cs |-> Append(cs, one.c), rng |-> one.rng]
  ELSE ResetCreatures(i + 1, n, W, Append(cs, one.c), ResetCreature(i + 1, W, one.rng))

\* reset_world, if it began with a fresh RNG of seed 0 and kept the corpses
ResetWorldReseeded(W, cr, pl) ==
  [W EXCEPT !.tick = 0, !.creatures = cr.cs, !.plants = pl.ps, !.rng = RngNew(U32(0))]

\* reset_world once the creatures cr and the plants pl are drawn
ResetWorldTo(W, cr, pl) ==
  [W EXCEPT !.tick = 0, !.creatures = cr.cs, !.plants = pl.ps, !.corpses = <<>>,
            !.rng = pl.rng]

ResetWorldWith(W, cr) == ResetWorldTo(W, cr, NewPlants(NumPlants, W.width, W.height, cr.rng))

\* reset_world
ResetWorldOf(W) ==
  ResetWorldWith(W, ResetCreatures(0, NumCreatures, W, <<>>, ResetCreature(0, W, W.rng)))

\* mode.eq_ignore_ascii_case("Zegion") over the mode strings the model passes
IsZegionName(mode) == mode \in {"Zegion", "zegion", "ZEGION"}

\* the loop of set_brain_mode that gives every creature a new brain: b is
\* the brain drawn for cs[i]
RECURSIVE Rebrain(_, _, _, _, _)
Rebrain(cs, i, layer_sizes, b, bad) ==
  IF i >= Len(cs) THEN [cs |-> [cs EXCEPT ![i].brain = b.brain], rng |-> b.rng]
  ELSE Rebrain([cs EXCEPT ![i].brain = b.brain], i + 1, layer_sizes,
               init_brain_avoiding_bad(layer_sizes, b.rng, bad), bad)

\* set_brain_mode, if it gave a new brain to the first creature only
SwitchFirstBrain(W, new_mode) ==
  IF W.creatures = <<>> THEN [cs |-> <<>>, rng |-> W.rng]
  ELSE Rebrain(SubSeq(W.creatures, 1, 1), 1, LayerSizes(new_mode),
               init_brain_avoiding_bad(LayerSizes(new_mode), W.rng, W.bad_brain_hashes),
               W.bad_brain_hashes)

\* set_brain_mode when the mode changes to new_mode
SwitchBrains(W, new_mode) ==
  IF W.creatures = <<>> THEN [cs |-> <<>>, rng |-> W.rng]
  ELSE Rebrain(W.creatures, 1, LayerSizes(new_mode),
               init_brain_avoiding_bad(LayerSizes(new_mode), W.rng, W.bad_brain_hashes),
               W.bad_brain_hashes)

\* set_brain_mode, if it switched the mode and kept the brains
SetBrainModeKeepsBrains(W, new_mode, re) == [W EXCEPT !.brain_mode = new_mode]

SetBrainModeTo(W, new_mode, re) ==
  [W EXCEPT !.brain_mode = new_mode, !.creatures = re.cs, !.rng = re.rng]

\* set_brain_mode
SetBrainModeWorld(W, mode) ==
  LET new_mode == IF IsZegionName(mode) THEN Zegion ELSE OG
  IN IF new_mode = W.brain_mode THEN W
     ELSE SetBrainModeTo(W, new_mode, SwitchBrains(W, new_mode))

\* set_seed, if it took the seed as the state, 0 included
SetSeedRaw(W, seed) == [W EXCEPT !.rng = seed]

\* set_seed
SetSeedWorld(W, seed) == [W EXCEPT !.rng = RngNew(seed)]

\* the result of serde_wasm_bindgen::from_value on what the host passes:
\* <<>> for Err and <<v>> for Ok(v)
Malformed == <<>>
Parsed(v) == <<v>>

\* set_bad_brain_hashes: hashes parses to a sequence of strings or not at all
SetBadBrainHashesWorld(W, hashes) ==
  IF hashes = Malformed THEN W
  ELSE [W EXCEPT !.bad_brain_hashes = {hashes[1][k] : k \in 1..Len(hashes[1])}]

\* set_config, if an input that does not parse brought the default Config back
SetConfigOrDefault(W, cfg) ==
  IF cfg = Malformed THEN [W EXCEPT !.config = DefaultConfig] ELSE [W EXCEPT !.config = cfg[1]]

\* set_config: cfg parses to a Config or not at all
SetConfigWorld(W, cfg) == IF cfg = Malformed THEN W ELSE [W EXCEPT !.config = cfg[1]]

(***************************************************************************)
(* The World as a state machine: one action per exported operation.         *)
(***************************************************************************)
\* the fields of the World in the current state
World ==
  [width |-> width, height |-> height, tick |-> tick, creatures |-> creatures,
   plants |-> plants, corpses |-> corpses, brain_mode |-> brain_mode, rng |-> rng,
   bad_brain_hashes |-> bad_brain_hashes, config |-> config]

\* the World becomes W
Becomes(W) ==
  /\ width' = W.width
  /\ height' = W.height
  /\ tick' = W.tick
  /\ creatures' = W.creatures
  /\ plants' = W.plants
  /\ corpses' = W.corpses
  /\ brain_mode' = W.brain_mode
  /\ rng' = W.rng
  /\ bad_brain_hashes' = W.bad_brain_hashes
  /\ config' = W.config

\* the history of an operation that is not a step
Did(op) == [op |-> op, dt |-> 0, upd |-> <<>>, born |-> 0, pushed |-> <<>>, decayed |-> <<>>]

\* the history of a step
DidStep(dt, st) ==
  [op |-> "step", dt |-> dt, upd |-> st.upd, born |-> st.born, pushed |-> st.pushed,
   decayed |-> st.decayed]

\* the inputs the host passes
Seeds == {U32(0), U32(42)}
DtSet == {166, S, -S}
Places == {<<F(50), F(50)>>}
PlantRadii == {<<>>, <<1000>>}
ModeNames == {"zegion", "OG"}

\* a Config under which swimming costs 2 energy a second
SwimConfig == [DefaultConfig EXCEPT !.swim_energy_cost_per_sec = F(2)]
ConfigInputs == {Malformed, Parsed(SwimConfig)}

\* the hash lists the host passes: none, or the hashes of the first k brains
\* the next spawn would try
CandidateHashes(layer_sizes, r, k) ==
  LET n == WeightOffset(layer_sizes, Len(layer_sizes))
  IN [j \in 1..k |-> brain_hash(init_brain(layer_sizes,
                        IF j = 1 THEN r ELSE Draws(r, (j - 1) * n)[(j - 1) * n]).brain)]
HashInputs ==
  {Malformed, Parsed(<<>>), Parsed(CandidateHashes(LayerSizes(brain_mode), next_u32(rng), 1))}

Init ==
  /\ \E W \in {WorldNew(F(100), F(100), U32(42))} :
       /\ width = W.width
       /\ height = W.height
       /\ tick = W.tick
       /\ creatures = W.creatures
       /\ plants = W.plants
       /\ corpses = W.corpses
       /\ brain_mode = W.brain_mode
       /\ rng = W.rng
       /\ bad_brain_hashes = W.bad_brain_hashes
       /\ config = W.config
  /\ hist = Did("new")
  /\ ops = 0

Step(dt) ==
  /\ ops < MaxOps
  /\ \E st \in {StepWorld(World, dt)} :
       /\ Becomes(st.world)
       /\ hist' = DidStep(dt, st)
  /\ ops' = ops + 1

SpawnCreature(x, y) ==
  /\ ops < MaxOps
  /\ Becomes(SpawnCreatureWorld(World, x, y))
  /\ hist' = Did("spawn_creature")
  /\ ops' = ops + 1

SpawnPlant(x, y, radius) ==
  /\ ops < MaxOps
  /\ Becomes(SpawnPlantWorld(World, x, y, radius))
  /\ hist' = Did("spawn_plant")
  /\ ops' = ops + 1

ResetWorld ==
  /\ ops < MaxOps
  /\ Becomes(ResetWorldOf(World))
  /\ hist' = Did("reset_world")
  /\ ops' = ops + 1

SetBrainMode(mode) ==
  /\ ops < MaxOps
  /\ Becomes(SetBrainModeWorld(World, mode))
  /\ hist' = Did("set_brain_mode") @@ [arg |-> mode]
  /\ ops' = ops + 1

SetSeed(seed) ==
  /\ ops < MaxOps
  /\ Becomes(SetSeedWorld(World, seed))
  /\ hist' = Did("set_seed") @@ [arg |-> seed]
  /\ ops' = ops + 1

SetBadBrainHashes(hashes) ==
  /\ ops < MaxOps
  /\ Becomes(SetBadBrainHashesWorld(World, hashes))
  /\ hist' = Did("set_bad_brain_hashes") @@ [arg |-> hashes]
  /\ ops' = ops + 1

SetConfig(cfg) ==
  /\ ops < MaxOps
  /\ Becomes(SetConfigWorld(World, cfg))
  /\ hist' = Did("set_config") @@ [arg |-> cfg]
  /\ ops' = ops + 1

Next ==
  \/ \E dt \in DtSet : Step(dt)
  \/ \E p \in Places : SpawnCreature(p[1], p[2])
  \/ \E p \in Places : \E radius \in PlantRadii : SpawnPlant(p[1], p[2], radius)
  \/ ResetWorld
  \/ \E mode \in ModeNames : SetBrainMode(mode)
  \/ \E seed \in Seeds : SetSeed(seed)
  \/ \E hashes \in HashInputs : SetBadBrainHashes(hashes)
  \/ \E cfg \in ConfigInputs : SetConfig(cfg)

Spec == Init /\ [][Next]_vars

(***************************************************************************)
(* Properties of the World under Spec.                                      *)
(***************************************************************************)
\* the last operation was a step
Stepped == hist.op = "step"

\* the creatures of the population as the history keeps them
Population == [k \in 1..Len(creatures) |-> Snapshot(creatures[k])]

\* the creature c has reached health <= 0 or energy <= 0
Spent(c) == c.health <= 0 \/ c.energy <= 0

\* the creatures of the sequence cs that have reached health <= 0 or
\* energy <= 0, and the others
DeadOf(cs) == SelectSeq(cs, Spent)
AliveOf(cs) == SelectSeq(cs, LAMBDA c : ~Spent(c))

\* C1: in every state the operations reach, and so whenever step has
\* returned, every creature of the population has its health in [0, 100]
\* and its energy in [-50, 100].
C1_VitalsInRange ==
  \A k \in 1..Len(creatures) :
     /\ 0 <= creatures[k].health /\ creatures[k].health <= F(100)
     /\ -F(50) <= creatures[k].energy /\ creatures[k].energy <= F(100)

\* a step of negative dt has returned and left a creature whose energy sits
\* on the upper bound of the clamp
C1_Witness ==
  /\ Stepped
  /\ hist.dt < 0
  /\ \E k \in 1..Len(creatures) : creatures[k].energy = F(100) /\ creatures[k].health = F(100)

\* C2: when step has returned no creature of the population has health <= 0
\* or energy <= 0, and the population is exactly the creatures of the step
\* (updated ones, then newborns) that did not reach health <= 0 or
\* energy <= 0, in their order.
C2_NoDeadAtBoundary ==
  Stepped =>
    /\ \A k \in 1..Len(creatures) : creatures[k].health > 0 /\ creatures[k].energy > 0
    /\ Population = AliveOf(hist.upd)

\* a step has returned in which a creature reached energy <= 0 and another
\* creature survived
C2_Witness ==
  /\ Stepped
  /\ \E k \in 1..Len(hist.upd) : hist.upd[k].energy <= 0
  /\ creatures # <<>>

\* C6: for every step, the number of creatures removed from the population
\* equals the number of corpses appended in that step, and the corpses
\* appended lie, in order, where the removed creatures were at the end of
\* their update.
C6_DeathToCorpse ==
  Stepped =>
    /\ Len(hist.upd) - Len(creatures) = Len(hist.pushed)
    /\ Len(DeadOf(hist.upd)) = Len(hist.pushed)
    /\ \A k \in 1..Len(hist.pushed) :
         /\ hist.pushed[k].x = DeadOf(hist.upd)[k].x
         /\ hist.pushed[k].y = DeadOf(hist.upd)[k].y

\* a step has returned that removed a creature and appended its corpse
C6_Witness ==
  /\ Stepped
  /\ Len(hist.pushed) >= 1
  /\ Len(hist.upd) - Len(creatures) >= 1

\* C9: on the freshly constructed world with the default Config, one call
\* step(1/60) keeps every creature (no birth, no death), sets tick to 1 and
\* every lifespan to 1, and creates no corpse.
C9_FirstStep ==
  (Stepped /\ ops = 1 /\ hist.dt = 166) =>
    /\ Len(creatures) = NumCreatures
    /\ hist.born = 0
    /\ tick = 1
    /\ \A k \in 1..Len(creatures) : creatures[k].lifespan = U32(1)
    /\ corpses = <<>>
    /\ hist.pushed = <<>>

\* step(1/60) has returned as the first operation on the fresh world
C9_Witness == Stepped /\ ops = 1 /\ hist.dt = 166 /\ tick = 1 /\ config = DefaultConfig

(***************************************************************************)
(* init_brain_avoiding_bad as a pure function: SpecBrain draws the layer    *)
(* sizes, the RNG state and the avoid set, and calls it once.               *)
(***************************************************************************)
\* the first n brains init_brain draws in a row from the RNG r, each with the
\* RNG after it; cs holds the first ones, one is the next
RECURSIVE Candidates(_, _, _, _)
Candidates(layer_sizes, n, cs, one) ==
  IF Len(cs) + 1 >= n THEN Append(cs, one)
  ELSE Candidates(layer_sizes, n, Append(cs, one), init_brain(layer_sizes, one.rng))

\* as many candidates as the loop can draw, and one more
NumCandidates == MAX_TRIES + 2

\* the avoid sets tried for the candidate hashes hs: the hashes of the first
\* k candidates for every k, of the second alone, of the first and the third
AvoidSets(hs) ==
  {{hs[j] : j \in 1..k} : k \in 0..Len(hs)} \cup {{hs[2]}, {hs[1], hs[3]}}

BrainInit ==
  /\ \E layer_sizes \in {<<2, 1>>, <<3, 2, 2>>, LayerSizes(OG)} : \E seed \in Seeds :
       \E cs \in {Candidates(layer_sizes, NumCandidates, <<>>,
                             init_brain(layer_sizes, RngNew(seed)))} :
         \E hs \in {[j \in 1..Len(cs) |-> brain_hash(cs[j].brain)]} :
           /\ rng = RngNew(seed)
           /\ bad_brain_hashes \in AvoidSets(hs)
           /\ hist = [op |-> "none", layer_sizes |-> layer_sizes, rng0 |-> RngNew(seed),
                      cands |-> cs, hashes |-> hs, brain |-> <<>>]
  /\ width = F(100)
  /\ height = F(100)
  /\ tick = 0
  /\ creatures = <<>>
  /\ plants = <<>>
  /\ corpses = <<>>
  /\ brain_mode = OG
  /\ config = DefaultConfig
  /\ ops = 0

\* one call of init_brain_avoiding_bad on the RNG and the avoid set
DrawBrain ==
  /\ ops = 0
  /\ \E b \in {init_brain_avoiding_bad(hist.layer_sizes, rng, bad_brain_hashes)} :
       /\ rng' = b.rng
       /\ hist' = [hist EXCEPT !.op = "init_brain_avoiding_bad", !.brain = b.brain]
  /\ ops' = 1
  /\ UNCHANGED <<width, height, tick, creatures, plants, corpses, brain_mode,
                 bad_brain_hashes, config>>

BrainNext == DrawBrain

SpecBrain == BrainInit /\ [][BrainNext]_vars

\* the call of init_brain_avoiding_bad has returned
Drawn == hist.op = "init_brain_avoiding_bad"

\* the call returned the candidate j: its brain, and the RNG after it
Returned(j) == hist.brain = hist.cands[j].brain /\ rng = hist.cands[j].rng

\* the candidate j collides with the avoid set
Collides(j) == hist.hashes[j] \in bad_brain_hashes

\* C4 as the spec states it: when every candidate collides the call makes 16
\* initializations and returns the 16th candidate.
C4_SixteenAttempts ==
  (Drawn /\ \A j \in 1..NumCandidates : Collides(j)) => Returned(MAX_TRIES)

\* C4: when the avoid set holds the hash of every candidate, the call makes
\* the first initialization and 16 more, and returns the 17th candidate.
C4_SeventeenAttempts ==
  (Drawn /\ \A j \in 1..NumCandidates : Collides(j)) => Returned(MAX_TRIES + 1)

\* the call has returned under an avoid set that holds the hash of every
\* candidate
C4_Witness == Drawn /\ \A j \in 1..NumCandidates : Collides(j)

\* C5: the call returns a brain; it is the first candidate that does not
\* collide, with the RNG right after that candidate, if there is one among
\* those it draws; the brain it returns collides only if every candidate it
\* hash-checked collided; with an empty avoid set it is the first candidate.
C5_FirstFree ==
  Drawn =>
    /\ \E j \in 1..(MAX_TRIES + 1) : Returned(j)
    /\ \A j \in 1..(MAX_TRIES + 1) :
         (~Collides(j) /\ \A i \in 1..(j - 1) : Collides(i)) => Returned(j)
    /\ brain_hash(hist.brain) \in bad_brain_hashes => \A j \in 1..MAX_TRIES : Collides(j)
    /\ bad_brain_hashes = {} => Returned(1)

\* the call has returned a later candidate than the first, the first that
\* does not collide
C5_Witness ==
  /\ Drawn
  /\ Collides(1) /\ Collides(2) /\ ~Collides(3)
  /\ Returned(3)

(***************************************************************************)
(* The life of a corpse: SpecDecay sets a Config under which the creatures  *)
(* die within a few ticks, then steps with one dt, and keeps for every      *)
(* corpse the number of decays it went through and the rates it decayed at. *)
(***************************************************************************)
MaxTicks == 11

\* Configs with an ambient health decay of 1/s, a base rate of decay r, and a
\* humidity coefficient h (with h = 0 the rate of decay is r in every tick)
DecayConfigs ==
  {[DefaultConfig EXCEPT !.ambient_health_decay_per_sec = F(1),
                         !.corpse_base_decay_per_sec = r,
                         !.corpse_humidity_decay_coeff = h] : r \in {5000, 7000}, h \in {0, S}}

\* the elements of seq whose flag is set, in order
RECURSIVE Pick(_, _, _, _)
Pick(seq, flags, k, acc) ==
  IF k > Len(seq) THEN acc
  ELSE Pick(seq, flags, k + 1, IF flags[k] THEN Append(acc, seq[k]) ELSE acc)

\* the history of a step of SpecDecay: of every corpse the step decayed, the
\* number of decays so far and the rates so far; ages and rates are those of
\* the corpses before the step
DidDecay(dt, decayed, ages, rates) ==
  LET timers == [k \in 1..Len(decayed) |-> decayed[k].decay_timer > 0]
      a == [k \in 1..Len(decayed) |-> IF k <= Len(ages) THEN ages[k] + 1 ELSE 1]
      r == [k \in 1..Len(decayed) |->
              (IF k <= Len(rates) THEN rates[k] ELSE {}) \cup {decayed[k].last_decay_total}]
  IN [op |-> "step", dt |-> dt, decayed |-> decayed, ages |-> a, rates |-> r,
      kept_ages |-> Pick(a, timers, 1, <<>>), kept_rates |-> Pick(r, timers, 1, <<>>)]

\* the World starts as W
Starts(W) ==
  /\ width = W.width
  /\ height = W.height
  /\ tick = W.tick
  /\ creatures = W.creatures
  /\ plants = W.plants
  /\ corpses = W.corpses
  /\ brain_mode = W.brain_mode
  /\ rng = W.rng
  /\ bad_brain_hashes = W.bad_brain_hashes
  /\ config = W.config

DecayInit ==
  /\ \E seed \in Seeds : \E cfg \in DecayConfigs : \E dt \in {S \div 2, S, 2 * S} :
       /\ Starts(SetConfigWorld(WorldNew(F(100), F(100), seed), Parsed(cfg)))
       /\ hist = [op |-> "set_config", dt |-> dt, decayed |-> <<>>, ages |-> <<>>,
                  rates |-> <<>>, kept_ages |-> <<>>, kept_rates |-> <<>>]
  /\ ops = 0

\* World::step with the dt of the behaviour
DecayStep ==
  /\ tick < MaxTicks
  /\ \E st \in {StepWorld(World, hist.dt)} :
       /\ Becomes(st.world)
       /\ hist' = DidDecay(hist.dt, st.decayed, hist.kept_ages, hist.kept_rates)
  /\ ops' = ops + 1

DecayNext == DecayStep

SpecDecay == DecayInit /\ [][DecayNext]_vars

\* a step of SpecDecay has returned
Decayed == hist.op = "step"

\* the corpse k of the last step has decayed at one rate r > 0 so far
SteadyRate(k) ==
  /\ Cardinality(hist.rates[k]) = 1
  /\ \A r \in hist.rates[k] : r > 0 /\ Mul(Mul(hist.dt, F(60)), r) > 0

\* ceil(T / (r * 60 * dt)) for the corpse k of the last step
LifeTicks(k) ==
  LET r == CHOOSE r \in hist.rates[k] : TRUE
      delta == Mul(Mul(hist.dt, F(60)), r)
  IN (hist.decayed[k].initial_decay_time + delta - 1) \div delta

\* the corpse k of the last step stays in the list: by its count of ticks if
\* its rate is steady, by its timer otherwise
Stays(k) ==
  IF SteadyRate(k) THEN hist.ages[k] < LifeTicks(k) ELSE hist.decayed[k].decay_timer > 0

\* C7: a corpse that decays at one rate r > 0 under steps of one dt > 0 is in
\* the list after each of its first ceil(T/(r*60*dt)) - 1 ticks, with a timer
\* above 0, and leaves the list in the tick after, with its timer at 0.
C7_CorpseLifecycle ==
  Decayed =>
    /\ corpses = Pick(hist.decayed, [k \in 1..Len(hist.decayed) |-> Stays(k)], 1, <<>>)
    /\ \A k \in 1..Len(hist.decayed) :
         SteadyRate(k) =>
           /\ hist.ages[k] <= LifeTicks(k)
           /\ hist.ages[k] < LifeTicks(k) <=> hist.decayed[k].decay_timer > 0

\* a corpse of a steady rate leaves the list in its third tick or later, one
\* of its rate leaving some of the timer to the last tick
C7_Witness ==
  /\ Decayed
  /\ Len(corpses) < Len(hist.decayed)
  /\ \E k \in 1..Len(hist.decayed) :
       /\ SteadyRate(k)
       /\ hist.ages[k] = LifeTicks(k)
       /\ hist.ages[k] >= 3
       /\ hist.decayed[k].initial_decay_time % Mul(Mul(hist.dt, F(60)), CHOOSE r \in hist.rates[k] : TRUE) # 0

(***************************************************************************)
(* One step of a World that holds a creature in a given condition:          *)
(* SpecScene puts a creature of World::new about to give birth, or at a     *)
(* health of 0.01, sets the ambient health decay, and steps.                *)
(***************************************************************************)
\* a creature at health 0.01 and energy 50
Frail(c) == [c EXCEPT !.health = 100, !.energy = F(50)]

\* a creature carrying n offspring, 60 short of the gestation period
Pregnant(c, n) ==
  [c EXCEPT !.is_pregnant = TRUE, !.gestation_timer = F(60 * 20) - F(60),
            !.offspring_count = n]

\* the world W with its creature at frail (n = -1) or carrying n offspring,
\* and the ambient health decay d
SceneWorld(W, at, n, d) ==
  [W EXCEPT !.creatures[at] = IF n < 0 THEN Frail(@) ELSE Pregnant(@, n),
            !.config.ambient_health_decay_per_sec = d]

SceneInit ==
  /\ \E seed \in {U32(0), U32(7), U32(42), U32(99)} : \E at \in 1..NumCreatures :
       \E n \in {-1, 0, 1, 2} : \E d \in {1, 100, 200} :
         Starts(SceneWorld(WorldNew(F(100), F(100), seed), at, n, d))
  /\ hist = [op |-> "new", dt |-> 0, old |-> <<>>, upd |-> <<>>, born |-> 0,
             pushed |-> <<>>]
  /\ ops = 0

\* World::step on the scene
SceneStep(dt) ==
  /\ ops = 0
  /\ \E st \in {StepWorld(World, dt)} :
       /\ Becomes(st.world)
       /\ hist' = [op |-> "step", dt |-> dt, old |-> creatures, upd |-> st.upd,
                   born |-> st.born, pushed |-> st.pushed]
  /\ ops' = 1

SceneNext == \E dt \in {166, S} : SceneStep(dt)

SpecScene == SceneInit /\ [][SceneNext]_vars

\* the step of SpecScene has returned
SceneStepped == hist.op = "step"

\* the inputs and the activations of the creature k of the step, had it seen
\* the creatures before it as updated, those after it as they were, and no
\* newborn
ActsAlone(k) ==
  brain_forward(hist.old[k].brain,
                build_inputs(width, height, tick, hist.old[k], SubSeq(hist.upd, 1, k - 1),
                             SubSeq(hist.old, k + 1, Len(hist.old)), brain_mode)).acts

\* the creature c is as it was made: whole, at age 0, nothing charged,
\* no mask set, no forward pass run
Untouched(c) ==
  c = FreshCreature(c.id, c.x, c.y, c.vx, c.vy, F(4), F(80), c.diet, <<>>)

\* C8: the offspring of a step come after every creature that was there at
\* its start; the inputs and the activations of every such creature are the
\* ones of a population without the offspring; and the offspring end the
\* step as they were made, not updated.
C8_NewbornIsolation ==
  SceneStepped =>
    /\ Len(hist.upd) = Len(hist.old) + hist.born
    /\ \A k \in 1..Len(hist.old) :
         /\ hist.upd[k].id = hist.old[k].id
         /\ hist.upd[k].lifespan = SaturatingInc(hist.old[k].lifespan)
         /\ hist.upd[k].brain = ActsAlone(k)
    /\ \A k \in (Len(hist.old) + 1)..Len(hist.upd) :
         /\ Untouched(hist.upd[k])
         /\ 0 <= hist.upd[k].x /\ hist.upd[k].x <= width
         /\ 0 <= hist.upd[k].y /\ hist.upd[k].y <= height
         /\ \E j \in 1..Len(creatures) :
              /\ creatures[j].x = hist.upd[k].x /\ creatures[j].y = hist.upd[k].y
              /\ creatures[j].lifespan = U32(0)

\* the first creature of two has given birth to two in the step
C8_Witness ==
  /\ SceneStepped
  /\ hist.born = 2
  /\ Len(hist.old) >= 2
  /\ hist.old[1].is_pregnant
  /\ Len(creatures) = Len(hist.old) + 2

\* the rest-intent output of the creature k of the step is above 0.5
RestIntent(k) ==
  Tanh(hist.upd[k].brain[Len(hist.upd[k].brain)][5]) > 5000

\* the creature k of a step(1) was at health 0.01 and energy 50 and did not
\* want to rest, under an ambient health decay above 0
FrailCase(k) ==
  /\ SceneStepped
  /\ hist.dt = S
  /\ hist.old[k].health = 100
  /\ hist.old[k].energy = F(50)
  /\ ~RestIntent(k)
  /\ config.ambient_health_decay_per_sec > 0

\* the creature k of the step ended at health 0, left the population and
\* became a corpse
DiedOfDecay(k) ==
  /\ hist.upd[k].health = 0
  /\ \A j \in 1..Len(creatures) : creatures[j].id # hist.upd[k].id
  /\ \E j \in 1..Len(hist.pushed) :
       hist.pushed[j].x = hist.upd[k].x /\ hist.pushed[j].y = hist.upd[k].y

AgedInit ==
  /\ \E W \in {WorldNew(F(100), F(100), U32(42))} :
       Starts([W EXCEPT !.creatures[1].lifespan = <<U16 - 1, U16 - 2>>])
  /\ hist = Did("new")
  /\ ops = 0

SpecAged == AgedInit /\ [][Next]_vars

\* the lifespan l plus one, staying at the largest u32
OneOlder(l) ==
  IF l[1] = U16 - 1 /\ l[2] = U16 - 1 THEN l
  ELSE IF l[2] = U16 - 1 THEN <<l[1] + 1, 0>> ELSE <<l[1], l[2] + 1>>

\* C11: a step adds exactly 1 to the tick, whatever its dt, and 1 to the
\* lifespan of every creature of the population it starts from, which stays
\* at the largest u32; only reset_world lowers the tick, and the other
\* operations leave it alone.
C11_TickAndAge ==
  [][/\ hist'.op = "step" =>
          /\ tick' = tick + 1
          /\ Len(hist'.upd) >= Len(creatures)
          /\ \A k \in 1..Len(creatures) :
               hist'.upd[k].lifespan = OneOlder(creatures[k].lifespan)
     /\ tick' < tick => hist'.op = "reset_world"
     /\ hist'.op \notin {"step", "reset_world"} => tick' = tick]_vars

\* after two steps the first creature, or its remains in the history, is at
\* the largest u32 lifespan: the second step found it there
C11_Witness ==
  /\ Stepped
  /\ tick = 2
  /\ ops = 2
  /\ hist.upd # <<>>
  /\ hist.upd[1].lifespan = <<U16 - 1, U16 - 1>>
  /\ hist.upd[1].id = CreatureId(0)

(***************************************************************************)
(* The World in the middle of a run: SpecLate starts after World::new,      *)
(* set_config, a step in which a creature dies, and spawn_creature, and     *)
(* goes through the operations of Spec.                                     *)
(***************************************************************************)
LateInit ==
  /\ \E W \in {SpawnCreatureWorld(
                 StepWorld(SetConfigWorld(WorldNew(F(100), F(100), U32(42)), Parsed(SwimConfig)),
                           S).world,
                 F(50), F(50))} : Starts(W)
  /\ hist = Did("spawn_creature")
  /\ ops = 0

SpecLate == LateInit /\ [][Next]_vars

\* the RNG state s is on the stream of r, base + j * per draws on, for a j
\* from lo to hi
OnStream(r, s, base, per, lo, hi) ==
  \E j \in lo..hi :
    s = IF base + j * per = 0 THEN r ELSE Draws(r, base + hi * per)[base + j * per]

\* the RNG state s is on the stream of r after the draws of reset_world: per
\* creature the diet, x, y, vx and vy, per plant x and y, and the brains
OnResetStream(r, s, layer_sizes) ==
  OnStream(r, s, 5 * NumCreatures + 2 * NumPlants,
           WeightOffset(layer_sizes, Len(layer_sizes)),
           NumCreatures, NumCreatures * (MAX_TRIES + 1))

\* C12: reset_world sets the tick to 0, empties the corpses, and leaves the
\* full count of new creatures and plants, the creatures with brains of the
\* current mode; it draws on from the RNG state it finds; width, height,
\* Config, mode and avoid set stay.
C12_ResetWorld ==
  [][hist'.op = "reset_world" =>
       /\ tick' = 0
       /\ corpses' = <<>>
       /\ Len(creatures') = NumCreatures
       /\ Len(plants') = NumPlants
       /\ \A k \in 1..Len(creatures') :
            /\ creatures'[k].id = CreatureId(k - 1)
            /\ creatures'[k].brain.layer_sizes = LayerSizes(brain_mode)
            /\ creatures'[k].lifespan = U32(0)
            /\ creatures'[k].health = F(100) /\ creatures'[k].energy = F(100)
       /\ creatures'[1].diet = DietOf(next_u32(rng))
       /\ OnResetStream(rng, rng', LayerSizes(brain_mode))
       /\ UNCHANGED <<width, height, config, brain_mode, bad_brain_hashes>>]_vars

\* reset_world has run on a world with a tick above 0 and a corpse, after an
\* avoid set was given that holds the hash of the first brain it draws
C12_Witness ==
  /\ hist.op = "reset_world"
  /\ ops = 2
  /\ bad_brain_hashes # {}
  /\ tick = 0
  /\ corpses = <<>>
  /\ Len(creatures) = NumCreatures

\* the mode that set_brain_mode reads from the name
ModeOf(name) == IF name \in {"Zegion", "zegion", "ZEGION"} THEN Zegion ELSE OG

\* the brain b is newly made for the layer sizes: weights of the right
\* lengths, biases 0, no activations
NewlyMade(b, layer_sizes) ==
  /\ b.layer_sizes = layer_sizes
  /\ Len(b.weights) = Len(layer_sizes) - 1
  /\ Len(b.biases) = Len(layer_sizes) - 1
  /\ \A li \in 1..(Len(layer_sizes) - 1) :
       /\ Len(b.weights[li]) = layer_sizes[li] * layer_sizes[li + 1]
       /\ b.biases[li] = [o \in 1..layer_sizes[li + 1] |-> 0]
  /\ b.activations = <<>>

\* C13: set_brain_mode with the active mode changes nothing; with the other
\* mode it switches the mode and gives every creature a newly made brain of
\* the new layer sizes, drawn from the RNG as it stands, and leaves every
\* other field of the creatures and of the world.
C13_SetBrainMode ==
  [][hist'.op = "set_brain_mode" =>
       IF ModeOf(hist'.arg) = brain_mode
       THEN UNCHANGED <<width, height, tick, creatures, plants, corpses, brain_mode, rng,
                        bad_brain_hashes, config>>
       ELSE /\ brain_mode' = ModeOf(hist'.arg)
            /\ Len(creatures') = Len(creatures)
            /\ \A k \in 1..Len(creatures) :
                 /\ [creatures'[k] EXCEPT !.brain = creatures[k].brain] = creatures[k]
                 /\ NewlyMade(creatures'[k].brain, LayerSizes(brain_mode'))
            /\ (creatures # <<>> /\ bad_brain_hashes = {}) =>
                 creatures'[1].brain = init_brain(LayerSizes(brain_mode'), rng).brain
            /\ OnStream(rng, rng', 0,
                        WeightOffset(LayerSizes(brain_mode'), Len(LayerSizes(brain_mode'))),
                        Len(creatures), Len(creatures) * (MAX_TRIES + 1))
            /\ UNCHANGED <<width, height, tick, plants, corpses, bad_brain_hashes, config>>]_vars

\* set_brain_mode has switched a population of two, one of them a tick old,
\* to the extended mode
C13_Witness ==
  /\ hist.op = "set_brain_mode"
  /\ brain_mode = Zegion
  /\ Len(creatures) = 2
  /\ creatures[1].lifespan = U32(1)
  /\ creatures[1].brain.layer_sizes = <<24, 16, 6>>

\* the brain b has the layer sizes, with weights and biases of their shapes
ShapedAs(b, layer_sizes) ==
  /\ b.layer_sizes = layer_sizes
  /\ Len(b.weights) = Len(layer_sizes) - 1
  /\ Len(b.biases) = Len(layer_sizes) - 1
  /\ \A li \in 1..(Len(layer_sizes) - 1) :
       /\ Len(b.weights[li]) = layer_sizes[li] * layer_sizes[li + 1]
       /\ Len(b.biases[li]) = layer_sizes[li + 1]

\* C14: every creature's brain has the layer sizes of the active mode, 14
\* inputs in the compact mode and 24 in the extended one, weights and biases
\* of those shapes, and as many inputs as the feature vector built for the
\* creature has values, in the last step and in a next one.
C14_Topology ==
  /\ LayerSizes(brain_mode)[1] = (IF brain_mode = OG THEN 14 ELSE 24)
  /\ \A k \in 1..Len(creatures) :
       /\ ShapedAs(creatures[k].brain, LayerSizes(brain_mode))
       /\ Len(build_inputs(width, height, tick + 1, creatures[k], SubSeq(creatures, 1, k - 1),
                           SubSeq(creatures, k + 1, Len(creatures)), brain_mode))
            = creatures[k].brain.layer_sizes[1]
  /\ Stepped =>
       \A k \in 1..Len(hist.upd) :
         hist.upd[k].brain # <<>> =>
           Len(hist.upd[k].brain[1]) = LayerSizes(brain_mode)[1]

\* a step has run the brains of the extended mode, after set_brain_mode
C14_Witness ==
  /\ Stepped
  /\ brain_mode = Zegion
  /\ creatures # <<>>
  /\ Len(hist.upd[1].brain[1]) = 24
  /\ Len(creatures[1].brain.weights[1]) = 24 * 16

\* the first state of a generator made with the seed: 0xDEADBEEF for 0
FreshStream(seed) == IF seed = <<0, 0>> THEN <<57005, 48879>> ELSE seed

\* C15: set_seed puts the RNG in the first state of a generator of that seed
\* and leaves everything else; the draw after it is the first draw of such a
\* generator, as the diet spawn_creature draws next shows.
C15_SetSeed ==
  [][/\ hist'.op = "set_seed" =>
          /\ rng' = FreshStream(hist'.arg)
          /\ UNCHANGED <<width, height, tick, creatures, plants, corpses, brain_mode,
                         bad_brain_hashes, config>>
     /\ (hist.op = "set_seed" /\ hist'.op = "spawn_creature") =>
          /\ rng = FreshStream(hist.arg)
          /\ creatures'[Len(creatures')].diet = DietOf(next_u32(FreshStream(hist.arg)))]_vars

\* set_seed(0) has run on a world with creatures, a corpse and a tick above 0
C15_Witness ==
  /\ hist.op = "set_seed"
  /\ hist.arg = U32(0)
  /\ rng = <<57005, 48879>>
  /\ creatures # <<>>
  /\ corpses # <<>>
  /\ tick > 0

\* C16: set_config with a Config that parses makes it the Config, and
\* set_bad_brain_hashes with a list that parses makes its strings the avoid
\* set, whatever they were; with an input that does not parse both leave
\* them; and everything else stays in either case.
C16_Setters ==
  [][/\ hist'.op = "set_config" =>
          /\ config' = (IF hist'.arg = <<>> THEN config ELSE hist'.arg[1])
          /\ UNCHANGED <<width, height, tick, creatures, plants, corpses, brain_mode, rng,
                         bad_brain_hashes>>
     /\ hist'.op = "set_bad_brain_hashes" =>
          /\ bad_brain_hashes' = (IF hist'.arg = <<>> THEN bad_brain_hashes
                                  ELSE {hist'.arg[1][k] : k \in 1..Len(hist'.arg[1])})
          /\ UNCHANGED <<width, height, tick, creatures, plants, corpses, brain_mode, rng,
                         config>>]_vars

\* set_config with an input that does not parse has kept the Config that an
\* earlier set_config had put in place of the default one
C16_Witness ==
  /\ hist.op = "set_config"
  /\ hist.arg = <<>>
  /\ ops = 2
  /\ config = SwimConfig
  /\ config # DefaultConfig

(***************************************************************************)
(* RngLCG on its own: SpecRng makes a generator from a seed and draws from  *)
(* it with next_u32, next_f32_01 and uniform.                               *)
(***************************************************************************)
MaxDraws == 3

\* seeds: 0, small ones, 0xDEADBEEF, the largest, and the states from which
\* the next draw is 0xFFFFFFFF, 0xFFFFFF80, 0xFFFFFF7F and 0; the world
\* variables are not used
RngInit ==
  /\ \E seed \in {U32(0), U32(1), U32(42), <<57005, 48879>>, <<65535, 65535>>,
                   <<9973, 46880>>, <<46505, 44389>>, <<46793, 21664>>, <<9686, 4069>>} :
       /\ rng = RngNew(seed)
       /\ hist = [op |-> "new", seed |-> seed, draws |-> <<>>, unit |-> <<>>, uni |-> <<>>]
  /\ width = F(100)
  /\ height = F(100)
  /\ tick = 0
  /\ creatures = <<>>
  /\ plants = <<>>
  /\ corpses = <<>>
  /\ brain_mode = OG
  /\ bad_brain_hashes = {}
  /\ config = DefaultConfig
  /\ ops = 0

\* a draw of the generator: unit is <<>> or the value next_f32_01 returns,
\* uni is <<>> or the range and the value uniform returns
Drawing(op, unit, uni) ==
  /\ Len(hist.draws) < MaxDraws
  /\ rng' = next_u32(rng)
  /\ hist' = [hist EXCEPT !.op = op, !.draws = Append(@, next_u32(rng)),
                          !.unit = unit, !.uni = uni]
  /\ ops' = ops + 1
  /\ UNCHANGED <<width, height, tick, creatures, plants, corpses, brain_mode,
                 bad_brain_hashes, config>>

RawDraw == Drawing("next_u32", <<>>, <<>>)

UnitDraw == Drawing("next_f32_01", <<f32_01(next_u32(rng))>>, <<>>)

UniformDraw(min, max) == Drawing("uniform", <<>>, <<min, max, uniform(min, max, next_u32(rng))>>)

\* the ranges are those World draws from: positions, velocities, jitter
RngNext ==
  \/ RawDraw
  \/ UnitDraw
  \/ \E r \in {<<0, F(100)>>, <<-S, S>>, <<-5000, 5000>>} : UniformDraw(r[1], r[2])

SpecRng == RngInit /\ [][RngNext]_vars

\* s * m (mod 2^32) for a u32 s and a multiplier m below 256
TimesByte(s, m) == <<(s[1] * m + (s[2] * m) \div U16) % U16, (s[2] * m) % U16>>

\* s * 256^k (mod 2^32) for a u32 s
RECURSIVE ShiftBytes(_, _)
ShiftBytes(s, k) ==
  IF k = 0 THEN s
  ELSE ShiftBytes(<<(s[1] * 256 + s[2] \div 256) % U16, (s[2] % 256) * 256>>, k - 1)

\* a + b (mod 2^32) on u32
PlusU32(a, b) == <<(a[1] + b[1] + (a[2] + b[2]) \div U16) % U16, (a[2] + b[2]) % U16>>

\* (s * 1664525 + 1013904223) mod 2^32, the multiplier taken byte by byte:
\* 1664525 = 0x19660D, 1013904223 = 0x3C6EF35F
LcgOf(s) ==
  PlusU32(PlusU32(TimesByte(s, 13), ShiftBytes(TimesByte(s, 102), 1)),
          PlusU32(ShiftBytes(TimesByte(s, 25), 2), <<15470, 62303>>))

\* C17: a generator starts at its seed, or at 0xDEADBEEF for the seed 0, as
\* one made with the seed 0xDEADBEEF does; every raw draw is
\* (state * 1664525 + 1013904223) mod 2^32 of the state before, and is the
\* state after.
C17_Lcg ==
  hist.op \in {"new", "next_u32", "next_f32_01", "uniform"} =>
    LET start == IF hist.seed = <<0, 0>> THEN <<57005, 48879>> ELSE hist.seed
    IN /\ start # <<0, 0>>
       /\ \A i \in 1..Len(hist.draws) :
            hist.draws[i] = LcgOf(IF i = 1 THEN start ELSE hist.draws[i - 1])
       /\ rng = (IF hist.draws = <<>> THEN start ELSE hist.draws[Len(hist.draws)])

\* the generator of seed 0 has made its draws, the first one that of the
\* state 0xDEADBEEF
C17_Witness ==
  /\ hist.op = "next_u32"
  /\ hist.seed = <<0, 0>>
  /\ Len(hist.draws) = MaxDraws
  /\ hist.draws[1] = LcgOf(<<57005, 48879>>)
  /\ rng # <<0, 0>>

\* C18: the unit draw is in [0, 1), never 1, and uniform(min, max) is in
\* [min, max) for min < max.
C18_UnitInterval ==
  /\ hist.op = "next_f32_01" => (0 <= hist.unit[1] /\ hist.unit[1] < S)
  /\ hist.op = "uniform" =>
       (hist.uni[1] < hist.uni[2] => (hist.uni[1] <= hist.uni[3] /\ hist.uni[3] < hist.uni[2]))

(***************************************************************************)
(* The worlds World::new builds, over several sizes and seeds.              *)
(***************************************************************************)
\* World::new(width, height, seed); two of the seeds make the first draw
\* 0xFFFFFFFF and 0xFFFFFF80
NewInit ==
  /\ \E size \in {<<F(100), F(100)>>, <<F(50), F(200)>>} :
       \E seed \in {U32(0), U32(7), <<9973, 46880>>, <<46505, 44389>>} :
         /\ Starts(WorldNew(size[1], size[2], seed))
         /\ hist = Did("new") @@ [arg |-> <<size[1], size[2], seed>>]
  /\ ops = 0

SpecNew == NewInit /\ [][Next]_vars

\* C19: World::new(width, height, seed) yields tick 0, the full count of
\* creatures, each within [0, width] x [0, height] with health and energy
\* 100, the full count of plants, no corpses, an empty avoid set, the default
\* Config and the compact mode; a creature is a carnivore exactly when its
\* diet draw, the fifth of its draws, is above 0.8.
C19_WorldNew ==
  hist.op = "new" =>
    LET per == 5 + WeightOffset(<<14, 8, 8>>, 3)
        ds == Draws(FreshStream(hist.arg[3]), NumCreatures * per)
    IN /\ width = hist.arg[1] /\ height = hist.arg[2]
       /\ tick = 0
       /\ Len(creatures) = NumCreatures
       /\ \A k \in 1..Len(creatures) :
            /\ 0 <= creatures[k].x /\ creatures[k].x <= width
            /\ 0 <= creatures[k].y /\ creatures[k].y <= height
            /\ creatures[k].health = F(100) /\ creatures[k].energy = F(100)
            /\ (creatures[k].diet = Carnivore) = (f32_01(ds[(k - 1) * per + 5]) > 8000)
            /\ (creatures[k].diet = Herbivore) = (f32_01(ds[(k - 1) * per + 5]) <= 8000)
       /\ Len(plants) = NumPlants
       /\ \A k \in 1..Len(plants) :
            /\ 0 <= plants[k].x /\ plants[k].x <= width
            /\ 0 <= plants[k].y /\ plants[k].y <= height
       /\ corpses = <<>>
       /\ bad_brain_hashes = {}
       /\ config = DefaultConfig
       /\ brain_mode = OG

\* a world just built holds a herbivore and a carnivore
C19_Witness ==
  /\ hist.op = "new"
  /\ ops = 0
  /\ Len(creatures) = NumCreatures
  /\ Len(plants) = NumPlants
  /\ \E k \in 1..Len(creatures) : creatures[k].diet = Carnivore
  /\ \E k \in 1..Len(creatures) : creatures[k].diet = Herbivore

(***************************************************************************)
(* The operations on worlds with a creature about to give birth.            *)
(***************************************************************************)
\* World::new with seed 7 makes a herbivore and a carnivore; either carries
\* offspring, with a count of 0, 1 or 2
DietInit ==
  /\ \E at \in 1..NumCreatures : \E n \in {0, 1, 2} :
       Starts(SceneWorld(WorldNew(F(100), F(100), U32(7)), at, n, DefaultConfig.ambient_health_decay_per_sec))
  /\ hist = Did("new")
  /\ ops = 0

SpecDiet == DietInit /\ [][Next]_vars

\* the creatures of cs keep their places and their diets at the head of ds
SameDiets(cs, ds) ==
  /\ Len(ds) >= Len(cs)
  /\ \A k \in 1..Len(cs) : ds[k].diet = cs[k].diet

\* C20: no operation changes the diet of a creature it finds: a step updates
\* every creature with its diet, and the ones it keeps are in the population
\* after with that diet; set_brain_mode, set_seed, set_config,
\* set_bad_brain_hashes and spawn_plant keep the population's diets,
\* spawn_creature keeps them and appends one creature; and every newborn of
\* a step has the diet of the creature that carried it.
C20_DietKept ==
  [][/\ hist'.op = "step" =>
          /\ SameDiets(creatures, hist'.upd)
          /\ Len(creatures') = Len(AliveOf(hist'.upd))
          /\ SameDiets(creatures', AliveOf(hist'.upd))
          /\ Len(hist'.upd) = Len(creatures) + hist'.born
          /\ \A k \in (Len(creatures) + 1)..Len(hist'.upd) :
               /\ \E p \in 1..Len(creatures) :
                    creatures[p].is_pregnant /\ hist'.upd[k].diet = creatures[p].diet
               /\ \A p \in 1..Len(creatures) :
                    creatures[p].is_pregnant => hist'.upd[k].diet = creatures[p].diet
     /\ hist'.op \in {"set_brain_mode", "set_seed", "set_config", "set_bad_brain_hashes",
                      "spawn_plant"} =>
          /\ Len(creatures') = Len(creatures)
          /\ SameDiets(creatures, creatures')
     /\ hist'.op = "spawn_creature" =>
          /\ Len(creatures') = Len(creatures) + 1
          /\ SameDiets(creatures, creatures')]_vars

\* a step has returned in which the carnivore gave birth to two, next to a
\* herbivore, and the four are in the population
C20_Witness ==
  /\ Stepped
  /\ ops = 1
  /\ hist.born = 2
  /\ Len(creatures) = NumCreatures + 2
  /\ \E k \in 1..NumCreatures : creatures[k].diet = Herbivore
  /\ \A k \in (NumCreatures + 1)..Len(creatures) : creatures[k].diet = Carnivore

(***************************************************************************)
(* The operations on a world where creatures eat, drink and attack.         *)
(***************************************************************************)
\* World::new with seed 88, set_config with a thirst threshold of 150,
\* spawn_creature and spawn_plant at the same place: in a step of dt 1/60
\* the spawned creature eats and drinks at the plant, and the second, a
\* carnivore, sprints and attacks
FeedInit ==
  /\ Starts(SpawnPlantWorld(SpawnCreatureWorld(
              SetConfigWorld(WorldNew(F(100), F(100), U32(88)),
                             Parsed([DefaultConfig EXCEPT !.thirst_threshold = F(150)])),
              F(50), F(50)), F(50), F(50), <<>>))
  /\ hist = Did("spawn_plant")
  /\ ops = 0

SpecFeed == FeedInit /\ [][Next]_vars

\* the action bit (1 resting, 2 eating, 4 sprinting, 8 attacking,
\* 16 drinking) is set in the mask of the creature c
Acted(c, bit) == (c.actions_mask \div bit) % 2 = 1

\* C21: a step leaves the plant list as it was, also when creatures eat or
\* drink at a plant; the plant list changes only in spawn_plant and
\* reset_world.
C21_PlantsStay ==
  [][/\ hist'.op = "step" => plants' = plants
     /\ plants' # plants => hist'.op \in {"spawn_plant", "reset_world"}]_vars

\* a step has returned in which a creature ate and drank at a plant
C21_Witness ==
  /\ Stepped
  /\ \E k \in 1..Len(hist.upd) :
       /\ Acted(hist.upd[k], 2) /\ Acted(hist.upd[k], 16)
       /\ plants_near(plants, hist.upd[k].x, hist.upd[k].y, hist.upd[k].radius + F(5))
  /\ Len(plants) = NumPlants + 1

\* the creature c as the step of dt moves it at tick t, before the wrap,
\* seeing the creatures left before it and rest after it
Moved(c, left, rest, t, dt) ==
  Move(c, Steer(brain_forward(c.brain, build_inputs(width, height, t, c, left, rest, brain_mode))),
       terrain_speed_at(c.x, c.y, t), dt)

\* the coordinate v on an axis of maximum max: above max it becomes 0, below
\* 0 it becomes max
Wrapped(v, max) == IF v > max THEN 0 ELSE IF v < 0 THEN max ELSE v

\* the creature c lies in the rectangle of the world
InBounds(c) == 0 <= c.x /\ c.x <= width /\ 0 <= c.y /\ c.y <= height

\* C22: a step wraps each axis on its own: a coordinate above the axis
\* maximum becomes 0, one below 0 becomes the maximum, any other stays; so
\* every creature updated in a step ends it inside [0, width] x [0, height],
\* and the newborns lie in the same rectangle.
C22_Wrap ==
  [][hist'.op = "step" =>
       /\ Len(hist'.upd) >= Len(creatures)
       /\ \A k \in 1..Len(creatures) :
            LET m == Moved(creatures[k], SubSeq(hist'.upd, 1, k - 1),
                           SubSeq(creatures, k + 1, Len(creatures)), tick', hist'.dt)
            IN /\ hist'.upd[k].x = Wrapped(m.x, width)
               /\ hist'.upd[k].y = Wrapped(m.y, height)
       /\ \A k \in 1..Len(hist'.upd) : InBounds(hist'.upd[k])
       /\ \A k \in 1..Len(creatures') : InBounds(creatures'[k])]_vars

\* a step has returned in which a creature left by the maximum edge of an
\* axis and one by the minimum edge, and a newborn was put on an edge
C22_Witness ==
  /\ Stepped
  /\ hist.born > 0
  /\ \E k \in 1..(Len(hist.upd) - hist.born) : hist.upd[k].x = 0 \/ hist.upd[k].y = 0
  /\ \E k \in 1..(Len(hist.upd) - hist.born) : hist.upd[k].x = width \/ hist.upd[k].y = height
  /\ \E k \in (Len(hist.upd) - hist.born + 1)..Len(hist.upd) :
       hist.upd[k].x \in {0, width} \/ hist.upd[k].y \in {0, height}

\* what the creature c feeds its brain and gets from it at tick t, seeing
\* the creatures left before it and rest after it
Seen(c, left, rest, t) ==
  brain_forward(c.brain, build_inputs(width, height, t, c, left, rest, brain_mode)).acts

\* C23: a step updates the creatures in the order of the population, and the
\* creature at index k sees every creature before it as this step has
\* updated it and every creature after it as it was before the step, itself
\* left out and no other, the ones that die in this step included.
C23_ViewOrder ==
  [][hist'.op = "step" =>
       /\ Len(hist'.upd) >= Len(creatures)
       /\ \A k \in 1..Len(creatures) :
            /\ hist'.upd[k].id = creatures[k].id
            /\ hist'.upd[k].brain = Seen(creatures[k], SubSeq(hist'.upd, 1, k - 1),
                                         SubSeq(creatures, k + 1, Len(creatures)), tick')]_vars

\* a step has updated three creatures, the first of which it moved and then
\* removed as dead, and a later one has run its brain
C23_Witness ==
  /\ Stepped
  /\ Len(hist.upd) >= 3
  /\ Spent(hist.upd[1])
  /\ ~Spent(hist.upd[Len(hist.upd)])
  /\ hist.upd[Len(hist.upd)].brain # <<>>

\* C24: in a step without births the update of a creature changes that
\* creature alone: every creature ends the creature loop as its own update
\* leaves it, whatever the creatures around it did; an attack is attempted
\* by sprinting carnivores only and is charged to the attacker.
C24_OwnUpdate ==
  [][(hist'.op = "step" /\ hist'.born = 0) =>
       /\ Len(hist'.upd) = Len(creatures)
       /\ rng' = rng
       /\ \A k \in 1..Len(creatures) :
            /\ hist'.upd[k] = Snapshot(UpdateCreature(creatures[k], SubSeq(hist'.upd, 1, k - 1),
                                                      SubSeq(creatures, k + 1, Len(creatures)),
                                                      rng, hist'.dt,
                                                      [World EXCEPT !.tick = tick + 1]).c)
            /\ Acted(hist'.upd[k], 8) =>
                 /\ creatures[k].diet = Carnivore
                 /\ Acted(hist'.upd[k], 4)
                 /\ \E j \in 1..Len(creatures) : j # k /\ creatures[j].diet = Herbivore]_vars

\* a step has returned in which a carnivore attacked and a herbivore was
\* updated next to it
C24_Witness ==
  /\ Stepped
  /\ hist.born = 0
  /\ \E k \in 1..Len(hist.upd) : Acted(hist.upd[k], 8) /\ hist.upd[k].diet = Carnivore
  /\ \E k \in 1..Len(hist.upd) : hist.upd[k].diet = Herbivore /\ hist.upd[k].health > 0

\* the creature c with other telemetry: v in the last-tick scalars, m in the
\* masks, a as the recorded activations
OtherTelemetry(c, v, m, a) ==
  [c EXCEPT !.actions_mask = m, !.feelings_mask = m,
            !.last_env_total = v, !.last_env_swim = v, !.last_env_wind = v,
            !.last_env_cold = v, !.last_env_heat = v, !.last_env_humid = v,
            !.last_env_oxy = v, !.last_env_noise = v, !.last_env_disease = v,
            !.last_locomotion = v, !.brain.activations = a]

\* the corpse co with v in its decay telemetry
OtherDecayTelemetry(co, v) ==
  [co EXCEPT !.last_decay_total = v, !.last_decay_base = v, !.last_decay_temp = v,
             !.last_decay_humid = v, !.last_decay_rain = v, !.last_decay_wet = v]

\* the world W with other telemetry on every creature and corpse
OtherWorld(W, v, m, a) ==
  [W EXCEPT !.creatures = [k \in 1..Len(W.creatures) |-> OtherTelemetry(W.creatures[k], v, m, a)],
            !.corpses = [k \in 1..Len(W.corpses) |-> OtherDecayTelemetry(W.corpses[k], v)]]

\* the simulation state of the creatures cs, the corpses cos and the RNG r
SimState(cs, cos, r) ==
  [creatures |-> [k \in 1..Len(cs) |->
                    [id |-> cs[k].id, diet |-> cs[k].diet, x |-> cs[k].x, y |-> cs[k].y,
                     vx |-> cs[k].vx, vy |-> cs[k].vy, health |-> cs[k].health,
                     energy |-> cs[k].energy, stamina |-> cs[k].stamina,
                     thirst |-> cs[k].thirst, lifespan |-> cs[k].lifespan,
                     is_pregnant |-> cs[k].is_pregnant,
                     gestation_timer |-> cs[k].gestation_timer,
                     offspring_count |-> cs[k].offspring_count,
                     weights |-> cs[k].brain.weights]],
   corpses |-> [k \in 1..Len(cos) |->
                  [x |-> cos[k].x, y |-> cos[k].y, decay_timer |-> cos[k].decay_timer,
                   energy_remaining |-> cos[k].energy_remaining]],
   rng |-> r]

\* the simulation state after step(dt) on the world W
SimAfter(W, dt) ==
  SimState(StepWorld(W, dt).world.creatures, StepWorld(W, dt).world.corpses,
           StepWorld(W, dt).world.rng)

\* C25: the telemetry of the last tick does not feed back: the same step on
\* the world with its telemetry scalars, masks, recorded activations and
\* decay telemetry cleared, or set to other values, ends in the same
\* simulation state.
C25_NoFeedback ==
  [][hist'.op = "step" =>
       /\ SimAfter(OtherWorld(World, 0, 0, <<>>), hist'.dt) = SimState(creatures', corpses', rng')
       /\ SimAfter(OtherWorld(World, F(9), 31, <<<<S>>, <<-S, S>>>>), hist'.dt)
            = SimState(creatures', corpses', rng')]_vars

\* a step has returned on a world that carried the telemetry of the step
\* before: a cost and activations on a creature, decay rates on a corpse;
\* the creature and the corpse are still there
C25_Witness ==
  /\ Stepped
  /\ tick = 2
  /\ ops = 1
  /\ \E k \in 1..Len(creatures) :
       /\ creatures[k].lifespan = U32(2)
       /\ creatures[k].last_locomotion # 0
       /\ creatures[k].brain.activations # <<>>
  /\ \E k \in 1..Len(corpses) :
       corpses[k].last_decay_total > 0 /\ corpses[k].decay_timer < F(100) - corpses[k].last_decay_total

\* the timer t after a tick of dt at the decay rate rate, floored at 0
Decremented(t, rate, dt) ==
  IF t - Mul(Mul(dt, F(60)), rate) < 0 THEN 0 ELSE t - Mul(Mul(dt, F(60)), rate)

\* C26 as the spec states it, the bound on the timers: after a step every
\* corpse has a decay timer above 0 and at most the initial 100.
C26_TimerAtMostInitial ==
  Stepped => \A k \in 1..Len(corpses) :
               0 < corpses[k].decay_timer /\ corpses[k].decay_timer <= F(100)

\* C26: a step updates the creatures, appends the newborns, moves the dead
\* into corpses with a timer of 100 and then decays every corpse, the new
\* ones too; it keeps exactly the corpses whose timer is above 0 after the
\* decrement, so every corpse left has a timer above 0; in a step of
\* dt >= 0 no timer increases and a new corpse's timer is at most 100, and
\* in a step of dt < 0 no timer decreases.
C26_Phases ==
  [][hist'.op = "step" =>
       /\ Len(hist'.upd) = Len(creatures) + hist'.born
       /\ Len(hist'.pushed) = Len(DeadOf(hist'.upd))
       /\ Len(hist'.decayed) = Len(corpses) + Len(hist'.pushed)
       /\ \A k \in 1..Len(hist'.decayed) :
            LET before == IF k <= Len(corpses) THEN corpses[k].decay_timer ELSE F(100)
                after == hist'.decayed[k].decay_timer
                prior == IF k <= Len(corpses) THEN corpses[k] ELSE hist'.pushed[k - Len(corpses)]
            IN /\ k > Len(corpses) => hist'.pushed[k - Len(corpses)].decay_timer = F(100)
               /\ hist'.decayed[k] = DecayCorpse(prior, hist'.dt, [World EXCEPT !.tick = tick + 1])
               /\ after = Decremented(before, hist'.decayed[k].last_decay_total, hist'.dt)
               /\ hist'.decayed[k].last_decay_total >= 0
               /\ after >= 0
               /\ hist'.dt >= 0 => after <= before
               /\ hist'.dt < 0 => after >= before
       /\ corpses' = SelectSeq(hist'.decayed, LAMBDA co : co.decay_timer > 0)
       /\ \A k \in 1..Len(corpses') : corpses'[k].decay_timer > 0]_vars

\* a step of dt 1 has made a corpse and left it with a timer below 100,
\* after a corpse that was there before
C26_Witness ==
  /\ Stepped
  /\ hist.dt = S
  /\ hist.pushed # <<>>
  /\ Len(hist.decayed) > Len(hist.pushed)
  /\ corpses # <<>>
  /\ corpses[Len(corpses)].decay_timer < F(100)
  /\ corpses[Len(corpses)].decay_timer = hist.decayed[Len(hist.decayed)].decay_timer

\* the creature c, pregnant, reaches the gestation period in a tick of dt
ComesToTerm(c, dt) ==
  c.is_pregnant /\ c.gestation_timer + Mul(dt, F(60)) >= config.gestation_period

\* the index of the parent of every newborn of a tick of dt on the creatures
\* cs, from index k on, in the order of the births: max(offspring_count, 1)
\* times the index of every creature that comes to term
RECURSIVE Parents(_, _, _)
Parents(cs, k, dt) ==
  IF k > Len(cs) THEN <<>>
  ELSE (IF ComesToTerm(cs[k], dt)
        THEN [j \in 1..(IF cs[k].offspring_count > 1 THEN cs[k].offspring_count ELSE 1) |-> k]
        ELSE <<>>) \o Parents(cs, k + 1, dt)

\* C27: in a step a pregnant creature whose gestation timer, advanced by
\* dt * 60, reaches the gestation period gets max(offspring_count, 1)
\* newborns, each with its diet, age 0, energy 80, health 100, full stamina
\* and thirst, not pregnant, with a brain of the active topology; the parent
\* ends not pregnant, with timer 0 and offspring count 1, its energy not
\* below -50, which is where the birth costs stop; a pregnant creature short
\* of the period keeps its state with the timer advanced, and a creature
\* that is not pregnant has no newborn.
C27_Birth ==
  [][hist'.op = "step" =>
       LET P == Parents(creatures, 1, hist'.dt)
           n == Len(creatures)
       IN /\ hist'.born = Len(P)
          /\ Len(hist'.upd) = n + Len(P)
          /\ Len(creatures') >= Len(P)
          /\ \A k \in 1..n :
               /\ ComesToTerm(creatures[k], hist'.dt) =>
                    /\ ~hist'.upd[k].is_pregnant
                    /\ hist'.upd[k].gestation_timer = 0
                    /\ hist'.upd[k].offspring_count = 1
                    /\ hist'.upd[k].energy >= -F(50)
                    /\ Birth([creatures[k] EXCEPT !.energy = -F(49)], next_u32(rng),
                             [cs |-> <<>>, rng |-> rng], config).c.energy = -F(50)
               /\ (creatures[k].is_pregnant /\ ~ComesToTerm(creatures[k], hist'.dt)) =>
                    /\ hist'.upd[k].is_pregnant
                    /\ hist'.upd[k].gestation_timer
                         = creatures[k].gestation_timer + Mul(hist'.dt, F(60))
                    /\ hist'.upd[k].offspring_count = creatures[k].offspring_count
               /\ ~creatures[k].is_pregnant => ~hist'.upd[k].is_pregnant
          /\ \A j \in 1..Len(P) :
               /\ hist'.upd[n + j].diet = creatures[P[j]].diet
               /\ hist'.upd[n + j].lifespan = U32(0)
               /\ hist'.upd[n + j].energy = F(80)
               /\ hist'.upd[n + j].health = F(100)
               /\ hist'.upd[n + j].stamina = F(100)
               /\ hist'.upd[n + j].max_stamina = F(100)
               /\ hist'.upd[n + j].thirst = F(100)
               /\ ~hist'.upd[n + j].is_pregnant
               /\ Snapshot(creatures'[Len(creatures') - Len(P) + j]) = hist'.upd[n + j]
               /\ ShapedAs(creatures'[Len(creatures') - Len(P) + j].brain, LayerSizes(brain_mode))]_vars

\* after set_brain_mode to the extended topology a step has returned in
\* which a creature gave birth to two, with brains of 24 inputs
C27_Witness ==
  /\ Stepped
  /\ ops = 2
  /\ brain_mode = Zegion
  /\ hist.born = 2
  /\ Len(creatures) >= 2
  /\ creatures[Len(creatures)].brain.layer_sizes[1] = 24
  /\ creatures[Len(creatures)].lifespan = U32(0)

(***************************************************************************)
(* simple_hash_str and brain_hash on their own: SpecHash hashes byte        *)
(* strings built byte by byte, and the JSON text of brains.                 *)
(***************************************************************************)
MaxBytes == 7

HashInit ==
  /\ hist = [op |-> "simple_hash_str", s |-> <<>>, text |-> simple_hash_str(<<>>)]
  /\ rng = RngNew(U32(1))
  /\ width = F(100)
  /\ height = F(100)
  /\ tick = 0
  /\ creatures = <<>>
  /\ plants = <<>>
  /\ corpses = <<>>
  /\ brain_mode = OG
  /\ bad_brain_hashes = {}
  /\ config = DefaultConfig
  /\ ops = 0

\* simple_hash_str on the string so far with the byte b appended
HashAppend(b) ==
  /\ hist.op = "simple_hash_str"
  /\ Len(hist.s) < MaxBytes
  /\ hist' = [op |-> "simple_hash_str", s |-> Append(hist.s, b),
              text |-> simple_hash_str(Append(hist.s, b))]
  /\ ops' = ops + 1
  /\ UNCHANGED <<width, height, tick, creatures, plants, corpses, brain_mode, rng,
                 bad_brain_hashes, config>>

\* brain_hash on the brain init_brain draws in the mode from the seed
HashBrain(mode, seed) ==
  /\ hist.op = "simple_hash_str"
  /\ hist.s = <<>>
  /\ \E b \in {init_brain(LayerSizes(mode), RngNew(seed))} :
       /\ hist' = [op |-> "brain_hash", s |-> CanonJson(b.brain), text |-> brain_hash(b.brain)]
       /\ rng' = b.rng
  /\ ops' = ops + 1
  /\ UNCHANGED <<width, height, tick, creatures, plants, corpses, brain_mode,
                 bad_brain_hashes, config>>

\* the bytes: 0, the letter z, the largest byte, and a brace
HashNext ==
  \/ \E b \in {0, 122, 255, 123} : HashAppend(b)
  \/ \E mode \in {OG, Zegion} : \E seed \in {U32(1), U32(42)} : HashBrain(mode, seed)

SpecHash == HashInit /\ [][HashNext]_vars

\* the reference rolling hash of the bytes s[lo..hi] from the hash h:
\* hash * 31 + byte, wrapped to 32 bits, byte after byte (the test on the
\* left half makes it be evaluated before the right half)
RECURSIVE RefHash(_, _, _, _)
RefHash(h, s, lo, hi) ==
  IF lo > hi THEN h
  ELSE IF lo = hi THEN PlusU32(TimesByte(h, 31), <<0, s[lo]>>)
  ELSE LET left == RefHash(h, s, lo, (lo + hi) \div 2)
       IN IF left[2] >= 0 THEN RefHash(left, s, (lo + hi) \div 2 + 1, hi) ELSE left

\* the value of a base-36 digit 0-9 a-z, -1 for any other character
DigitOf(ch) ==
  IF 48 <= ch /\ ch <= 57 THEN ch - 48
  ELSE IF 97 <= ch /\ ch <= 122 THEN ch - 87 ELSE -1

\* the number the text t[i..] continues from acc, most significant digit
\* first, as <<n>>; <<>> when a character is no digit or the number passes
\* 2^32 - 1 (acc * 36 + d fits when acc is below 119304647, or equal to it
\* with d <= 3)
RECURSIVE Decoded(_, _, _)
Decoded(t, i, acc) ==
  IF i > Len(t) THEN <<acc>>
  ELSE IF DigitOf(t[i]) < 0 THEN <<>>
  ELSE IF acc[1] > 1820 THEN <<>>
  ELSE IF acc[1] * U16 + acc[2] > 119304647 THEN <<>>
  ELSE IF acc[1] * U16 + acc[2] = 119304647 /\ DigitOf(t[i]) > 3 THEN <<>>
  ELSE Decoded(t, i + 1, PlusU32(TimesByte(acc, 36), <<0, DigitOf(t[i])>>))

\* C28: the hash text of a byte string is the reference rolling hash (start
\* at 0, hash * 31 + byte wrapped to 32 bits per byte) written as an
\* unsigned number in base 36 with the digits 0-9 a-z, most significant
\* first, without leading zeros, "0" for the value 0; the same bytes give
\* the same text, and brain_hash is that hash of the brain's JSON text.
C28_RollingHash ==
  hist.op \in {"simple_hash_str", "brain_hash"} =>
    /\ hist.text # <<>>
    /\ Decoded(hist.text, 1, <<0, 0>>) = <<RefHash(<<0, 0>>, hist.s, 1, Len(hist.s))>>
    /\ (Len(hist.text) > 1 => hist.text[1] # 48)
    /\ (RefHash(<<0, 0>>, hist.s, 1, Len(hist.s)) = <<0, 0>> => hist.text = <<48>>)
    /\ hist.text = simple_hash_str(hist.s)

\* a string of seven bytes has been hashed whose hash passes 2^32 on the
\* way (122 * 31^6 is above 2^32) and takes seven digits, a letter among
\* them
C28_Witness ==
  /\ hist.op = "simple_hash_str"
  /\ Len(hist.s) = MaxBytes
  /\ hist.s[1] = 122
  /\ Len(hist.text) = 7
  /\ \E i \in 1..Len(hist.text) : hist.text[i] >= 97

(***************************************************************************)
(* Pregnancy under Spec: the operations of World from World::new.           *)
(***************************************************************************)
\* C29: in every state reached from World::new through the operations of
\* World no creature is pregnant; so a step appends no newborn, leaves the
\* RNG as it was and never makes the population larger, and the population
\* grows only through spawn_creature and reset_world.
C29_NeverPregnant ==
  /\ [](\A k \in 1..Len(creatures) : ~creatures[k].is_pregnant)
  /\ [][/\ hist'.op = "step" =>
             /\ hist'.born = 0
             /\ rng' = rng
             /\ Len(creatures') <= Len(creatures)
        /\ Len(creatures') > Len(creatures) =>
             hist'.op \in {"spawn_creature", "reset_world"}]_vars

\* a step has been taken on a population that spawn_creature had made
\* larger than World::new left it, and it added nobody
C29_Witness ==
  /\ hist.op = "step"
  /\ hist.born = 0
  /\ Len(creatures) = NumCreatures + 1
  /\ \A k \in 1..Len(creatures) : ~creatures[k].is_pregnant /\ creatures[k].lifespan # U32(0)

(***************************************************************************)
(* reset_world after set_seed against World::new, under Spec.               *)
(***************************************************************************)
\* what the claim compares of a creature: position, velocity, diet, brain
Generated(c) == <<c.x, c.y, c.vx, c.vy, c.diet, c.brain>>

\* the creatures cs are those of ds in what was drawn for them
SameGenerated(cs, ds) ==
  /\ Len(cs) = Len(ds)
  /\ \A k \in 1..Len(cs) : Generated(cs[k]) = Generated(ds[k])

\* C30: in the mode OG with an empty avoid set, set_seed(s) followed by
\* reset_world() leaves the creatures (positions, velocities, diets, brains)
\* and the plants that World::new(width, height, s) makes.
C30_Regenerated ==
  [][(/\ hist.op = "set_seed"
      /\ hist'.op = "reset_world"
      /\ brain_mode = OG
      /\ bad_brain_hashes = {}) =>
       /\ SameGenerated(creatures', WorldNew(width, height, hist.arg).creatures)
       /\ plants' = WorldNew(width, height, hist.arg).plants]_vars

(***************************************************************************)
(* Creature ids under Spec.                                                 *)
(***************************************************************************)
\* C31: after any sequence of operations no two creatures of the
\* population have the same id.
C31_UniqueIds ==
  \A i \in 1..Len(creatures) : \A j \in 1..Len(creatures) :
    i # j => creatures[i].id # creatures[j].id

====
